---- MODULE Spec2Model ----
(***************************************************************************)
(* PizzaAssist: the tool-call orchestrator (core/agent.py, run_agent), the *)
(* session store (core/memory.py, ChatHistoryManager) and the connections  *)
(* of the websocket endpoint (server/websocket.py).                        *)
(*                                                                         *)
(* run_agent is an async generator.  Its atomic steps are the stretches of *)
(* code between two suspension points (an await of client.chat or a        *)
(* yield): each such stretch is one action of the model.                   *)
(***************************************************************************)
EXTENDS Naturals, Integers, Sequences, FiniteSets, TLC

\* ------------------------------------------------------------------ bounds
MaxTurns == 2
\* a further turn starts on a session only while its sequence counter is
\* at most MaxSeq (a turn that ended without a tool call leaves it at 4)
MaxSeq == 4
MaxToolCalls == 2
MaxRestarts == 1
MaxReconnects == 1
MaxOps == 5
\* messages handed to one add_messages_batch call
MaxBatch == 4
\* tool calls the backend requests in a run with two connections
MaxConnToolCalls == 1
MaxClock == 1
MaxIndexOps == 3
MaxHistoryOps == 2
MaxModules == 3
MaxSessionOps == 3

\* ------------------------------------------------------- program constants
\* max_history of the store (the trimming script uses 3).
max_history == 3

Sessions == {"s1", "s2"}
Tasks == {"t1"}

\* The session the orchestrator's turns run on.
TurnSessions == {"s1"}

\* SYSTEM_MESSAGE handed to run_agent by the server and the CLI.
SYSTEM_MESSAGE == "You are a pizza restaurant assistant"

\* Names with a callable in AVAILABLE_FUNCTIONS.
AVAILABLE_FUNCTIONS == {"place_pizza_order"}

\* ------------------------------------------------------------ small helpers
Min(a, b) == IF a < b THEN a ELSE b

\* Python xs[-n:] for n >= 1: the last n elements (all of xs when shorter).
LastN(xs, n) ==
    IF Len(xs) > n THEN SubSeq(xs, Len(xs) - n + 1, Len(xs)) ELSE xs

\* Python xs[1:], defined on the empty list too.
Rest(xs) == IF Len(xs) = 0 THEN << >> ELSE SubSeq(xs, 2, Len(xs))

\* ----------------------------------------------------------------- messages
\* A message dict.  Integer-valued keys hold 0 when the key is absent or
\* None; string-valued keys hold "None".  keys is the set of correlation
\* keys the dict carries.
MkMsg(role, content, name, tool_calls, tool_call_id, message_id, parent_id, sequence, keys) ==
    [role |-> role, content |-> content, name |-> name,
     tool_calls |-> tool_calls, tool_call_id |-> tool_call_id,
     message_id |-> message_id, parent_id |-> parent_id,
     sequence |-> sequence, keys |-> keys]

\* Keys of the messages run_agent builds with full correlation fields.
MsgKeys ==
    {"message_id", "parent_id", "conversation_id", "user_input_id",
     "sequence", "timestamp"}

\* make_serializable: plain data is kept, any other object becomes str(obj).
make_serializable(content) ==
    IF content = "<object>" THEN "str(<object>)" ELSE content

\* ------------------------------------------------------------------- state
VARIABLES
    conversations,            \* _conversations: session -> list of messages
    system_messages,          \* _system_messages: session -> << >> or <<msg>>
    function_call_attempts,   \* _function_call_attempts: session -> key -> n
    sequence_counters,        \* _sequence_counters: session -> int
    disk,                     \* <history_dir>/<session>.jsonl: << >> = no file
    has_file,                 \* whether the session's history file exists
    file_writes,              \* session -> times the latest step that used
                              \*   the store on it wrote the session's file
    uuid_counter,             \* number of uuid4() values drawn so far
    turn,                     \* task -> position and locals of run_agent
    events,                   \* task -> events yielded by the current turn
    turns_started,            \* number of run_agent invocations so far
    tool_calls_seen,          \* number of tool calls the backend has requested
    restarts,                 \* number of process restarts so far
    ops,                      \* number of endpoint / direct store operations
    bootstrapped,             \* session -> message_id of the system prompt
                              \*   run_agent inserted (0: none)
    inserted,                 \* session -> messages handed to add_message
                              \*   since set_system_message pinned an empty
                              \*   session (on: whether that is the case)
    history_mtime,            \* session -> st_mtime of its history file
    clock,                    \* the file system's time, in units of st_mtime
    files,                    \* source file -> whether it exists, its
                              \*   st_mtime and its text
    collections,              \* Chroma: collection name -> existence,
                              \*   identity and stored passages
    store_metadata,           \* store type -> << >> or the record in its
                              \*   metadata file
    session_retrievers,       \* vector_store.session_retrievers
    memory_manager,           \* query_memory.memory_manager
    index_result,             \* outcome of the latest index operation
    index_ops,                \* number of index operations so far
    tools,                    \* ToolRegistry._tools: name -> tool
    validation_results,       \* ToolRegistry._validation_results
    tool_definitions,         \* config.TOOL_DEFINITIONS: advertised names
    available_functions,      \* config.AVAILABLE_FUNCTIONS: name -> callable
    call,                     \* the latest call of a registered callable
    active_connections,       \* WebSocketManager.active_connections
    handler                   \* websocket -> session and position of its
                              \*   websocket_endpoint coroutine

vars ==
    <<conversations, system_messages, function_call_attempts,
      sequence_counters, disk, has_file, file_writes, uuid_counter, turn,
      events, turns_started, tool_calls_seen, restarts, ops, bootstrapped, inserted,
      history_mtime, clock, files, collections, store_metadata,
      session_retrievers, memory_manager, index_result, index_ops,
      tools, validation_results, tool_definitions, available_functions, call,
      active_connections, handler>>

store_vars ==
    <<conversations, system_messages, function_call_attempts,
      sequence_counters, disk, has_file, file_writes, history_mtime>>

\* The state of the vector stores and of what they are built from, besides
\* the history files.
index_vars ==
    <<clock, files, collections, store_metadata, session_retrievers,
      memory_manager, index_result, index_ops>>

\* The tool registry, the loaded tools and the latest call of one.
tool_vars ==
    <<tools, validation_results, tool_definitions, available_functions, call>>

\* The connection manager and the endpoint coroutines.
connection_vars == <<active_connections, handler>>

side_vars == <<tool_vars, connection_vars>>

\* ------------------------------------------------------ core/tools/__init__.py
\* A file of the tools directory as load_tools sees it: whether importing it
\* succeeds, whether it has get_tool_info, the name its tool info gives and
\* whether the module has an attribute of that name.  order_tools and
\* query_documents are as shipped; query_memory imports a name that
\* constants does not define; the other two are the cases lines 50-53 log.
ToolModules ==
    { [file |-> "order_tools", imports |-> TRUE, has_info |-> TRUE,
       name |-> "tool_place_order", has_function |-> TRUE],
      [file |-> "query_documents", imports |-> TRUE, has_info |-> TRUE,
       name |-> "query_documents", has_function |-> TRUE],
      [file |-> "query_memory", imports |-> FALSE, has_info |-> TRUE,
       name |-> "query_memory", has_function |-> TRUE],
      [file |-> "helpers", imports |-> TRUE, has_info |-> FALSE,
       name |-> "none", has_function |-> FALSE],
      [file |-> "menu_tools", imports |-> TRUE, has_info |-> TRUE,
       name |-> "get_menu", has_function |-> FALSE] }

FunctionNames == {m.name : m \in ToolModules} \ {"none"}

NoFunction == "none"

\* os.listdir of the tools directory: files in any order.
Directories ==
    { d \in UNION { [1..n -> ToolModules] : n \in 0..MaxModules } :
        \A i, j \in DOMAIN d : i /= j => d[i].file /= d[j].file }

\* One pass of the loop at lines 32-55 over the file m.
load_module(loaded, m) ==
    IF ~m.imports \/ ~m.has_info
    THEN loaded
    ELSE [tool_definitions |-> Append(loaded.tool_definitions, m.name),
          available_functions |->
              IF m.has_function
              THEN [loaded.available_functions EXCEPT ![m.name] = m.file]
              ELSE loaded.available_functions]

RECURSIVE load_from(_, _)
load_from(loaded, dir) ==
    IF dir = << >> THEN loaded
    ELSE load_from(load_module(loaded, dir[1]), Rest(dir))

load_tools(dir) ==
    load_from([tool_definitions |-> << >>,
               available_functions |-> [n \in FunctionNames |-> NoFunction]],
              dir)

\* ------------------------------------------------------ core/tool_registry.py
\* Tool objects handed to register: the class, whether it has get_tool_info
\* and validate, the errors validate_tool_schema finds in its info, and the
\* name in its info.
ToolObjects ==
    { [cls |-> "PlaceOrder", implements |-> TRUE, errors |-> FALSE,
       name |-> "tool_place_order"],
      [cls |-> "PlaceOrderV2", implements |-> TRUE, errors |-> FALSE,
       name |-> "tool_place_order"],
      [cls |-> "QueryDocuments", implements |-> TRUE, errors |-> FALSE,
       name |-> "query_documents"],
      [cls |-> "NoValidate", implements |-> FALSE, errors |-> FALSE,
       name |-> "query_documents"],
      [cls |-> "NoParameters", implements |-> TRUE, errors |-> TRUE,
       name |-> "query_documents"] }

NoTool == "none"

\* ToolRegistry.register: [tools, validation_results, raised].
register(reg, tool) ==
    IF ~tool.implements
    THEN [reg EXCEPT !.raised = TRUE]
    ELSE IF tool.errors
    THEN [reg EXCEPT !.validation_results = @ \cup {tool.cls},
                     !.raised = TRUE]
    ELSE [reg EXCEPT !.tools[tool.name] = tool.cls, !.raised = FALSE]

\* ToolRegistry.get_tool
get_tool(name) == tools[name]

\* The arguments looked at: two of tool_place_order's four required
\* parameters and query_documents' one.
ArgKeys == {"pizza_type", "quantity", "query"}

\* The parameters object of a shipped tool's get_tool_info, over ArgKeys.
Schema(name) ==
    IF name = "tool_place_order"
    THEN [properties |-> [pizza_type |-> "string", quantity |-> "integer"],
          required |-> {"pizza_type", "quantity"}]
    ELSE [properties |-> [query |-> "string"], required |-> {"query"}]

\* The parameters of the Python function, over ArgKeys, and those of them
\* without a default value.
Signature(name) ==
    IF name = "tool_place_order"
    THEN [params |-> {"pizza_type", "quantity"},
          no_default |-> {"pizza_type", "quantity"}]
    ELSE [params |-> {"query"}, no_default |-> {"query"}]

\* Python types of the values a backend puts in an arguments object.
ValueTypes == {"str", "int"}

ArgObjects == UNION { [ks -> ValueTypes] : ks \in SUBSET ArgKeys }

\* ToolRegistry._validate_type
validate_type(value, expected_type) ==
    CASE expected_type = "string" -> value = "str"
      [] expected_type \in {"number", "integer"} -> value = "int"
      [] expected_type = "boolean" -> value = "bool"
      [] expected_type = "array" -> value = "list"
      [] expected_type = "object" -> value = "dict"
      [] OTHER -> TRUE

\* The validation errors ToolRegistry.test_tool finds in test_input.
validation_errors(name, test_input) ==
    LET info == Schema(name)
    IN  { <<"missing", p>> : p \in info.required \ DOMAIN test_input }
        \cup { <<"unknown", p>> : p \in DOMAIN test_input \ DOMAIN info.properties }
        \cup { <<"type", p>> :
                 p \in { q \in DOMAIN test_input \cap DOMAIN info.properties :
                         ~validate_type(test_input[q], info.properties[q]) } }

\* function_to_call(**function_args): Python raises TypeError before the
\* body runs when a keyword is not a parameter or a parameter without a
\* default is not given; the types of the values are not looked at.
binds(name, function_args) ==
    /\ DOMAIN function_args \subseteq Signature(name).params
    /\ Signature(name).no_default \subseteq DOMAIN function_args

NoCall == [name |-> "none", args |-> << >>, outcome |-> "none"]

InitTools ==
    /\ tools = [n \in {t.name : t \in ToolObjects} |-> NoTool]
    /\ validation_results = {}
    /\ tool_definitions = << >>
    /\ available_functions = [n \in FunctionNames |-> NoFunction]
    /\ call = NoCall

\* ------------------------------------------ server/websocket.py: connections
WebSockets == {"w1", "w2", "w3"}

NoSocket == "none"

NoHandler == [session |-> "none", pc |-> "new", open |-> FALSE]

InitManager ==
    /\ active_connections = [s \in Sessions |-> NoSocket]
    /\ handler = [w \in WebSockets |-> NoHandler]

\* ------------------------------------------------------ vector store state
\* constants.py: the embedding model the application is configured with,
\* and another model a caller may pass to vector_store().
EMBEDDING_MODEL == "mxbai-embed-large"
EmbeddingModels == {EMBEDDING_MODEL, "nomic-embed-text"}

\* The collection of the document store, and "memory_collection", the
\* literal every memory store is created under.
COLLECTION_NAME == "restaurant_reviews"
MEMORY_COLLECTION == "memory_collection"
CollectionNames == {COLLECTION_NAME, MEMORY_COLLECTION}

\* The two metadata files: STORE_METADATA_FILE and memory_metadata.json.
StoreTypes == {"documents", "memory"}

\* Per-session (isolated) memory mode.  vector_store.py imports the flag
\* from constants, which does not define it.
SHARED_MEMORY_ENABLED == FALSE

\* The source files of the document store, and their rank in sorted().
ORDER_FILE_PATH == "orders.txt"
CSV_FILE_PATH == "reviews.csv"
SourcePaths == {ORDER_FILE_PATH, CSV_FILE_PATH}
PathRank == [p \in SourcePaths |-> IF p = ORDER_FILE_PATH THEN 0 ELSE 1]

\* Texts a source file may hold: two different texts of the same length
\* and, for the CSV file, a header line without rows.
FileTexts == {"header", "rowA", "rowB"}
TextsOf(path) == IF path = CSV_FILE_PATH THEN FileTexts ELSE {"rowA", "rowB"}
ByteSize == [x \in FileTexts |-> IF x = "header" THEN 1 ELSE 2]

NoFile == [exists |-> FALSE, mtime |-> 0, text |-> "rowA"]

\* A Document in a collection: page_content and the metadata the queries
\* read.
Passage(content, session_id, source) ==
    [content |-> content, session_id |-> session_id, source |-> source]

\* A Chroma collection.  gen tells collections created under one name
\* apart: deleting a collection and creating it again gives a new one.
NoCollection == [exists |-> FALSE, gen |-> 0, docs |-> << >>]

\* A retriever: the collection its Chroma object was constructed on.
Retriever(name, gen) == [name |-> name, gen |-> gen]

\* SessionMemoryManager.__init__
EmptyManager ==
    [session |-> [s \in Sessions |-> << >>], global |-> << >>]

\* What an index operation reports of itself: the operation, the session
\* or store it was called for, its arguments, the step of it that raised,
\* the value it returned
\* (<< >>: None), whether it parsed the sources, whether it replaced the
\* collection, what its sources held when it was called, and the passages
\* a query returned or whether it failed.
IndexResult(op, target, model, force, paths, fail, ret, parsed, rebuilt, sources, passages, error) ==
    [op |-> op, target |-> target, model |-> model, force |-> force,
     paths |-> paths, fail |-> fail, ret |-> ret, parsed |-> parsed,
     rebuilt |-> rebuilt, sources |-> sources, passages |-> passages,
     error |-> error]

NoResult ==
    IndexResult("none", "None", "None", FALSE, << >>, "none", << >>, FALSE,
                FALSE, << >>, << >>, FALSE)

\* Nothing written, nothing built.
InitIndex ==
    /\ history_mtime = [s \in Sessions |-> 0]
    /\ clock = 0
    /\ files = [p \in SourcePaths |-> NoFile]
    /\ collections = [n \in CollectionNames |-> NoCollection]
    /\ store_metadata = [t \in StoreTypes |-> << >>]
    /\ session_retrievers = [s \in Sessions |-> << >>]
    /\ memory_manager = EmptyManager
    /\ index_result = NoResult
    /\ index_ops = 0

\* ------------------------------------------------- ChatHistoryManager state
\* The store's data for one session, threaded through the calls one atomic
\* step of the program makes.
SessionState(s) ==
    [conv |-> conversations[s], sysm |-> system_messages[s],
     att |-> function_call_attempts[s], seq |-> sequence_counters[s],
     disk |-> disk[s], file |-> has_file[s], writes |-> 0, ret |-> 0]

\* Argument dicts handed to record_function_attempt, as the sequence of
\* their items in insertion order: one payload in two key orders and a
\* different payload.
ArgDicts ==
    { <<[k |-> "pizza", v |-> "Pepperoni"], [k |-> "size", v |-> "large"]>>,
      <<[k |-> "size", v |-> "large"], [k |-> "pizza", v |-> "Pepperoni"]>>,
      <<[k |-> "pizza", v |-> "Margherita"], [k |-> "size", v |-> "large"]>> }

\* The parsed arguments of one of run_agent's tool calls ("dict" or "list"),
\* as a single item.
ToolArgs(form) == <<[k |-> "json", v |-> form]>>

\* Position of a key in the order of Python's string comparison.
KeyRank == [json |-> 0, pizza |-> 1, size |-> 2]

\* json.dumps(args, sort_keys=True): the items in the order of their keys.
json_dumps_sort_keys(args) ==
    SortSeq(args, LAMBDA a, b : KeyRank[a.k] < KeyRank[b.k])

\* Names of the functions attempts are recorded for.
AttemptNames == {"place_pizza_order", "unknown_tool"}

\* Keys of _function_call_attempts: "<name>:<json text of the arguments>".
AttemptKeys ==
    {<<n, a>> : n \in AttemptNames,
                a \in {ToolArgs("dict"), ToolArgs("list")} \cup ArgDicts}

EmptySession ==
    [conv |-> << >>, sysm |-> << >>, att |-> [k \in AttemptKeys |-> 0],
     seq |-> 0, disk |-> << >>, file |-> FALSE, writes |-> 0, ret |-> 0]

\* save_history: rewrite the session file with one line per message.
save_history(st) ==
    [st EXCEPT !.disk = [i \in 1..Len(st.conv) |->
                            [st.conv[i] EXCEPT
                                !.content = make_serializable(@)]],
               !.file = TRUE,
               !.writes = @ + 1]

\* save_history when opening the file for writing raises: the exception is
\* logged and the file is left as it was.
save_history_error(st) == st

\* add_message as it would be if the pinned system message were trimmed with
\* the rest of the list.
add_message_unpinned(st, message, bulk_load) ==
    LET st1 == [st EXCEPT !.conv = LastN(Append(st.conv, message),
                                         max_history)]
    IN  IF bulk_load THEN st1 ELSE save_history(st1)

\* add_message: append, trim the non-system part to max_history, put the
\* pinned system message back in front, save unless bulk loading.
add_message(st, message, bulk_load) ==
    LET serializable_message ==
            [message EXCEPT !.content = make_serializable(@)]
        pinned == Len(st.sysm) > 0
        non_system_msgs ==
            Append(IF pinned THEN Rest(st.conv) ELSE st.conv,
                   serializable_message)
        trimmed == LastN(non_system_msgs, max_history)
        st1 == [st EXCEPT !.conv = IF pinned THEN st.sysm \o trimmed
                                             ELSE trimmed]
    IN  IF bulk_load THEN st1 ELSE save_history(st1)

\* _rebuild_history: re-trim and put the pinned system message in front.
rebuild_history(st) ==
    LET pinned == Len(st.sysm) > 0
        non_system_msgs == IF pinned THEN Rest(st.conv) ELSE st.conv
        trimmed == LastN(non_system_msgs, max_history)
    IN  [st EXCEPT !.conv = IF pinned THEN st.sysm \o trimmed ELSE trimmed]

\* set_system_message: pin the message, rebuild, save.
set_system_message(st, message) ==
    save_history(rebuild_history(
        [st EXCEPT !.sysm = <<[message EXCEPT
                                  !.content = make_serializable(@)]>>]))

\* add_messages_batch: add every message with bulk_load, then save once.
RECURSIVE add_all(_, _)
add_all(st, messages) ==
    IF Len(messages) = 0 THEN st
    ELSE add_all(add_message(st, Head(messages), TRUE), Tail(messages))

\* add_messages_batch as it would be if every message were added with an
\* immediate save.
RECURSIVE add_all_saving(_, _)
add_all_saving(st, messages) ==
    IF Len(messages) = 0 THEN st
    ELSE add_all_saving(add_message(st, Head(messages), FALSE),
                        Tail(messages))

add_messages_batch_unbatched(st, messages) == add_all_saving(st, messages)

add_messages_batch(st, messages) ==
    IF Len(messages) = 0 THEN st ELSE save_history(add_all(st, messages))

\* get_recent_messages(session_id) with count=None: the stored list.
get_recent_messages(st) == st.conv

\* Python xs[-count:] for count >= 0: -0 is 0, so a count of 0 selects the
\* whole list, as does a count of at least the length.
NegSlice(xs, count) ==
    IF count = 0 \/ count >= Len(xs) THEN xs
    ELSE SubSeq(xs, Len(xs) - count + 1, Len(xs))

\* get_recent_messages(session_id, count) with a count.
get_recent_messages_count(st, count) ==
    IF Len(st.sysm) > 0
    THEN SubSeq(st.conv, 1, Min(1, Len(st.conv))) \o NegSlice(st.conv, count)
    ELSE NegSlice(st.conv, count)

\* next_sequence as it would be if the counter were read without incrementing.
next_sequence_stuck(st) == st

\* next_sequence: increment the session's counter; the new value is returned.
next_sequence(st) == [st EXCEPT !.seq = @ + 1]

\* record_function_attempt as it would be with json.dumps(args) in place of
\* json.dumps(args, sort_keys=True).
record_function_attempt_unsorted(st, function_name, args) ==
    LET key == <<function_name, args>>
    IN  [st EXCEPT !.att[key] = @ + 1, !.ret = st.att[key] + 1]

\* record_function_attempt: count the call under its name and the sorted
\* text of its arguments; the new count is returned (ret).
record_function_attempt(st, function_name, args) ==
    LET key == <<function_name, json_dumps_sort_keys(args)>>
    IN  [st EXCEPT !.att[key] = @ + 1, !.ret = st.att[key] + 1]

\* load_history: replace the list by the file's lines; a first line with
\* role system becomes the pinned system message.
load_history(st) ==
    IF ~st.file THEN st
    ELSE IF Len(st.disk) > 0 /\ st.disk[1].role = "system"
         THEN [st EXCEPT !.sysm = <<st.disk[1]>>, !.conv = st.disk]
         ELSE [st EXCEPT !.conv = st.disk]

\* clear_session: drop the session's data and remove its file.
clear_session(st) == EmptySession

\* Commit as it would be with dictionaries shared by the sessions: the
\* history written for one session is the history of all.
Commit_shared(s, st) ==
    /\ conversations' = [x \in Sessions |-> st.conv]
    /\ system_messages' = [system_messages EXCEPT ![s] = st.sysm]
    /\ function_call_attempts' = [function_call_attempts EXCEPT ![s] = st.att]
    /\ sequence_counters' = [sequence_counters EXCEPT ![s] = st.seq]
    /\ disk' = [disk EXCEPT ![s] = st.disk]
    /\ has_file' = [has_file EXCEPT ![s] = st.file]
    /\ file_writes' = [file_writes EXCEPT ![s] = st.writes]
    /\ history_mtime' =
           [history_mtime EXCEPT ![s] = IF st.writes > 0 THEN clock ELSE @]

\* Write one session's data back.
Commit(s, st) ==
    /\ conversations' = [conversations EXCEPT ![s] = st.conv]
    /\ system_messages' = [system_messages EXCEPT ![s] = st.sysm]
    /\ function_call_attempts' = [function_call_attempts EXCEPT ![s] = st.att]
    /\ sequence_counters' = [sequence_counters EXCEPT ![s] = st.seq]
    /\ disk' = [disk EXCEPT ![s] = st.disk]
    /\ has_file' = [has_file EXCEPT ![s] = st.file]
    /\ file_writes' = [file_writes EXCEPT ![s] = st.writes]
    /\ history_mtime' =
           [history_mtime EXCEPT ![s] = IF st.writes > 0 THEN clock ELSE @]

\* ------------------------------------------------------------------ events
\* A dict yielded by run_agent.  payload stands for the content / error /
\* response / arguments value of the event.
MkEvent(status, stage, tool, payload, message_id, parent_id, sequence, tool_call_id, keys) ==
    [status |-> status, stage |-> stage, tool |-> tool, payload |-> payload,
     message_id |-> message_id, parent_id |-> parent_id,
     sequence |-> sequence, tool_call_id |-> tool_call_id, keys |-> keys]

\* Keys of the events that carry the full set of correlation fields.
EventKeys == MsgKeys \cup {"session_id"}

\* ----------------------------------------------------- generation backend
\* A tool call of a reply: function.name and the form of function.arguments.
\*   dict           a JSON object
\*   str_dict       a string that parses to an object
\*   str_list       a string that parses to a list
\*   str_null       the string "null"
\*   str_malformed  a string json.loads rejects
\*   list           a value that is neither dict nor str
\*   None           arguments missing
ToolCallInputs ==
    { [name |-> "place_pizza_order", arguments |-> "dict"],
      [name |-> "place_pizza_order", arguments |-> "str_dict"],
      [name |-> "place_pizza_order", arguments |-> "str_list"],
      [name |-> "place_pizza_order", arguments |-> "str_null"],
      [name |-> "place_pizza_order", arguments |-> "str_malformed"],
      [name |-> "place_pizza_order", arguments |-> "list"],
      [name |-> "place_pizza_order", arguments |-> "None"],
      [name |-> "unknown_tool", arguments |-> "dict"] }

ToolCallLists ==
    UNION { [1..n -> ToolCallInputs] : n \in 0..MaxToolCalls }

\* What the first client.chat can do: raise, return nothing usable, or
\* return a message.
InitialReplies ==
    { [kind |-> "raise", content |-> "None", tool_calls |-> << >>],
      [kind |-> "no_message", content |-> "None", tool_calls |-> << >>] }
    \cup
    { [kind |-> "message", content |-> c, tool_calls |-> tcs] :
        c \in {"", "Hello!"}, tcs \in ToolCallLists }

\* What the final client.chat can do.
FinalReplies ==
    { [kind |-> "raise", content |-> "None"],
      [kind |-> "no_response", content |-> "None"],
      [kind |-> "empty_message", content |-> "None"],
      [kind |-> "message", content |-> "None"],
      [kind |-> "message", content |-> ""],
      [kind |-> "message", content |-> "Your order is placed."] }

\* What a registered callable can do when called.
CallOutcomes == {"ok", "TypeError", "Exception"}

\* json.loads of a string argument.
json_loads(raw) ==
    CASE raw = "str_dict" -> "dict"
      [] raw = "str_list" -> "list"
      [] raw = "str_null" -> "None"
      [] OTHER -> "JSONDecodeError"

\* ------------------------------------------------------ run_agent's locals
IdleTurn ==
    [pc |-> "idle", session |-> "None", parent_id |-> 0,
     content |-> "None", tool_calls |-> << >>, idx |-> 0,
     tool_call_id |-> 0,
     initial |-> "None",    \* what the first client.chat did
     final |-> "None",      \* what the final client.chat did
     calls |-> 0,           \* client.chat calls made by this turn
     sent |-> << >>,        \* the messages argument of each client.chat call
     appended |-> << >>,    \* messages this turn handed to add_message
     resolved |-> << >>,    \* outcome of each tool call dealt with so far
     before |-> << >>]      \* history at the latest client.chat call

\* The working state of one atomic step: the generator's locals, the
\* session's store data, the uuid supply and the events yielded so far.
Ctx(t) ==
    [tr |-> turn[t], st |-> SessionState(turn[t].session),
     u |-> uuid_counter, ev |-> events[t]]

\* A message built by run_agent but never handed to memory.add_message.
AppendMsg_lost(ctx, msg) ==
    [ctx EXCEPT !.tr.appended = Append(@, msg)]

\* memory.add_message from run_agent.
AppendMsg(ctx, msg) ==
    [ctx EXCEPT !.st = add_message(@, msg, FALSE),
                !.tr.appended = Append(@, msg)]

\* yield: the event is handed to the consumer.
Yield(ctx, event) == [ctx EXCEPT !.ev = Append(@, event)]

\* Note the outcome of the tool call being dealt with.
Resolve(ctx, kind) ==
    [ctx EXCEPT !.tr.resolved =
        Append(@, [tool_call_id |-> ctx.tr.tool_call_id, kind |-> kind])]

\* Head of the tool loop: take the next tool call and yield its tool_call
\* event.
BeginToolCall(ctx) ==
    LET tc == ctx.tr.tool_calls[ctx.tr.idx + 1]
        tool_call_id == ctx.u + 1
        tool_call_msg_id == ctx.u + 2
        st1 == next_sequence(ctx.st)
    IN  Yield([ctx EXCEPT !.tr.idx = @ + 1,
                          !.tr.tool_call_id = tool_call_id,
                          !.tr.pc = "tool_call_sent",
                          !.st = st1, !.u = tool_call_msg_id],
              MkEvent("success", "tool_call", tc.name, tc.arguments,
                      tool_call_msg_id, ctx.tr.parent_id, st1.seq,
                      tool_call_id, EventKeys))

\* The final client.chat call is issued with the store's current list.
BeginFinalCall(ctx) ==
    [ctx EXCEPT !.tr.pc = "final_call",
                !.tr.calls = @ + 1,
                !.tr.sent = Append(@, get_recent_messages(ctx.st)),
                !.tr.before = get_recent_messages(ctx.st)]

\* The tool loop as it would be if it were left after its first iteration.
Continue_break(ctx) == BeginFinalCall(ctx)

\* The tool loop as it would be if the generator returned after the last
\* tool call without making the final call.
Continue_return(ctx) ==
    IF ctx.tr.idx < Len(ctx.tr.tool_calls)
    THEN BeginToolCall(ctx) ELSE [ctx EXCEPT !.tr.pc = "last_event_sent"]

\* End of one iteration of the tool loop.
Continue(ctx) ==
    IF ctx.tr.idx < Len(ctx.tr.tool_calls)
    THEN BeginToolCall(ctx) ELSE BeginFinalCall(ctx)

\* Write the working state of a step back.
CommitCtx(t, ctx) ==
    /\ Commit(ctx.tr.session, ctx.st)
    /\ turn' = [turn EXCEPT ![t] = ctx.tr]
    /\ events' = [events EXCEPT ![t] = ctx.ev]
    /\ uuid_counter' = ctx.u

\* --------------------------------------------------------------- run_agent
UserInputs == {"I want to order 2 large Pepperoni pizzas to 12 Elm St"}

\* Entry of run_agent up to the first await: bootstrap the system prompt
\* into an empty session, append the user message, issue client.chat.
StartTurn(t, s, user_input) ==
    /\ turn[t].pc \in {"idle", "done"}
    /\ turns_started < MaxTurns
    /\ sequence_counters[s] <= MaxSeq
    /\ LET ctx0 == [tr |-> [IdleTurn EXCEPT !.session = s],
                    st |-> SessionState(s), u |-> uuid_counter,
                    ev |-> << >>]
           recent_messages == get_recent_messages(ctx0.st)
           system_msg_id == ctx0.u + 1
           stB == next_sequence(ctx0.st)
           ctx1 ==
               IF SYSTEM_MESSAGE # "" /\ Len(recent_messages) = 0
               THEN AppendMsg(
                        [ctx0 EXCEPT !.st = stB, !.u = system_msg_id,
                                     !.tr.parent_id = system_msg_id],
                        MkMsg("system", SYSTEM_MESSAGE, "None", << >>, 0,
                              system_msg_id, 0, stB.seq,
                              {"message_id", "conversation_id", "sequence",
                               "timestamp"}))
               ELSE ctx0
           user_msg_id == ctx1.u + 1
           st2 == next_sequence(ctx1.st)
           ctx2 == AppendMsg(
                       [ctx1 EXCEPT !.st = st2, !.u = user_msg_id],
                       MkMsg("user", user_input, "None", << >>, 0,
                             user_msg_id, ctx1.tr.parent_id, st2.seq,
                             MsgKeys))
           messages == get_recent_messages(ctx2.st)
       IN  CommitCtx(t, [ctx2 EXCEPT !.tr.parent_id = user_msg_id,
                                     !.tr.pc = "initial_call",
                                     !.tr.calls = 1,
                                     !.tr.sent = <<messages>>,
                                     !.tr.before = messages])
    /\ turns_started' = turns_started + 1
    /\ bootstrapped' =
           IF SYSTEM_MESSAGE # "" /\ Len(conversations[s]) = 0
           THEN [bootstrapped EXCEPT ![s] = uuid_counter + 1]
           ELSE bootstrapped
    /\ UNCHANGED <<side_vars, index_vars, tool_calls_seen, restarts, ops, inserted>>

\* The error paths of the first call: an error message with role system is
\* stored, an error event is yielded.
InitialFailure(ctx, kind) ==
    LET st1 == next_sequence(ctx.st)
        ctx1 == AppendMsg(
                    [ctx EXCEPT !.st = st1, !.u = @ + 1,
                                !.tr.initial = kind],
                    MkMsg("system",
                          IF kind = "raise" THEN "Error contacting LLM"
                                            ELSE "No response from LLM.",
                          "None", << >>, 0, ctx.u + 1, ctx.tr.parent_id,
                          st1.seq, MsgKeys))
        st2 == next_sequence(ctx1.st)
    IN  Yield([ctx1 EXCEPT !.st = st2, !.u = @ + 1,
                           !.tr.pc = "last_event_sent"],
              MkEvent("error",
                      IF kind = "raise" THEN "initial_call"
                                        ELSE "initial_response",
                      "None",
                      IF kind = "raise" THEN "exception text"
                                        ELSE "No response from LLM.",
                      ctx1.u + 1, ctx.tr.parent_id, st2.seq, 0, MsgKeys))

\* The first reply carries a message: it is stored, then the turn branches
\* on its content and tool calls.
InitialMessage(ctx, reply) ==
    LET message_id == ctx.u + 1
        st1 == next_sequence(ctx.st)
        ctx1 == AppendMsg(
                    [ctx EXCEPT !.st = st1, !.u = message_id,
                                !.tr.initial = "message",
                                !.tr.parent_id = message_id,
                                !.tr.content = reply.content,
                                !.tr.tool_calls = reply.tool_calls],
                    MkMsg("assistant", reply.content, "None",
                          reply.tool_calls, 0, message_id,
                          ctx.tr.parent_id, st1.seq, MsgKeys))
        st2 == next_sequence(ctx1.st)
    IN  IF reply.content # "" /\ Len(reply.tool_calls) = 0
        THEN Yield([ctx1 EXCEPT !.st = st2, !.u = @ + 1,
                                !.tr.pc = "last_event_sent"],
                   MkEvent("success", "initial_response", "None",
                           reply.content, ctx1.u + 1, message_id, st2.seq,
                           0, EventKeys))
        ELSE IF Len(reply.tool_calls) > 0
        THEN BeginToolCall(ctx1)
        ELSE BeginFinalCall(ctx1)

\* The first client.chat returns or raises.
InitialReply(t, reply) ==
    /\ turn[t].pc = "initial_call"
    /\ tool_calls_seen + Len(reply.tool_calls) <= MaxToolCalls
    /\ tool_calls_seen' = tool_calls_seen + Len(reply.tool_calls)
    /\ CommitCtx(t, IF reply.kind = "message"
                    THEN InitialMessage(Ctx(t), reply)
                    ELSE InitialFailure(Ctx(t), reply.kind))
    /\ UNCHANGED <<side_vars, index_vars, turns_started, restarts, ops, bootstrapped, inserted>>

\* A role: tool message that carries only tool_call_id, name and content.
BareToolMsg(ctx, name, content) ==
    MkMsg("tool", content, name, << >>, ctx.tr.tool_call_id, 0, 0, 0, {})

\* Invalid tool call structure: no function name or no arguments.
InvalidToolCall(ctx, name) ==
    LET ctx1 == AppendMsg(ctx,
                    BareToolMsg(ctx, IF name = "None" THEN "unknown"
                                                      ELSE name,
                                "error: Invalid tool call structure"))
        st2 == next_sequence(ctx1.st)
    IN  Yield([Resolve(ctx1, "invalid") EXCEPT
                   !.st = st2, !.u = @ + 1, !.tr.pc = "tool_event_sent"],
              MkEvent("error", "tool_call", name,
                      "error: Invalid tool call structure", ctx1.u + 1,
                      ctx.tr.parent_id, st2.seq, ctx.tr.tool_call_id,
                      EventKeys))

\* The argument error path as it would be with a return in place of continue.
ToolArgsError_return(ctx, name, err, kind) ==
    Yield([Resolve(AppendMsg(ctx, BareToolMsg(ctx, name, err)), kind)
               EXCEPT !.tr.pc = "last_event_sent"],
          MkEvent("error", "tool_args", name, err, 0, 0, 0,
                  ctx.tr.tool_call_id, {"session_id"}))

\* Arguments that are a malformed string or of an unexpected type: a bare
\* tool message and a tool_args event without correlation fields.
ToolArgsError(ctx, name, err, kind) ==
    Yield([Resolve(AppendMsg(ctx, BareToolMsg(ctx, name, err)), kind)
               EXCEPT !.tr.pc = "tool_event_sent"],
          MkEvent("error", "tool_args", name, err, 0, 0, 0,
                  ctx.tr.tool_call_id, {"session_id"}))

\* The callable returned: its result is stored in a bare tool message.
ToolSuccess(ctx, name) ==
    LET ctx1 == AppendMsg(ctx, BareToolMsg(ctx, name, "json(result)"))
        st2 == next_sequence(ctx1.st)
    IN  Yield([Resolve(ctx1, "success") EXCEPT
                   !.st = st2, !.u = @ + 1, !.tr.pc = "tool_event_sent"],
              MkEvent("success", "tool_result", name, "json(result)",
                      ctx1.u + 1, ctx.tr.parent_id, st2.seq,
                      ctx.tr.tool_call_id, EventKeys))

\* The callable raised, or no callable has the name: the error is stored in
\* a tool message with correlation fields and an error event is yielded.
ToolFailure(ctx, name, err, stage, kind) ==
    LET st1 == next_sequence(ctx.st)
        ctx1 == AppendMsg(
                    [ctx EXCEPT !.st = st1, !.u = @ + 1],
                    MkMsg("tool", err, name, << >>, ctx.tr.tool_call_id,
                          ctx.u + 1, ctx.tr.parent_id, st1.seq,
                          {"message_id", "parent_id", "conversation_id",
                           "user_input_id", "sequence"}))
        st2 == next_sequence(ctx1.st)
    IN  Yield([Resolve(ctx1, kind) EXCEPT
                   !.st = st2, !.u = @ + 1, !.tr.pc = "tool_event_sent"],
              MkEvent("error", stage, name, err, ctx1.u + 1,
                      ctx.tr.parent_id, st2.seq, ctx.tr.tool_call_id,
                      EventKeys))

\* Arguments resolved to a value that is not None: count the attempt, then
\* call the function if one is registered under the name.
Execute(ctx, name, function_args, outcome) ==
    LET ctx1 == [ctx EXCEPT !.st = record_function_attempt(
                                       @, name, ToolArgs(function_args))]
        \* f(**args) raises TypeError when args is not a mapping
        raised == IF function_args # "dict" THEN "TypeError" ELSE outcome
    IN  IF name \in AVAILABLE_FUNCTIONS
        THEN CASE raised = "ok" -> ToolSuccess(ctx1, name)
               [] raised = "TypeError" ->
                      ToolFailure(ctx1, name, "error: Argument mismatch",
                                  "tool_exec", "mismatch")
               [] OTHER ->
                      ToolFailure(ctx1, name, "error: Runtime error",
                                  "tool_exec", "runtime")
        ELSE ToolFailure(ctx1, name, "error: Function not implemented",
                         "tool_missing", "missing")

\* Body of the tool loop after the tool_call event: resolve the arguments
\* and execute.
DispatchStep(ctx, outcome) ==
    LET tc == ctx.tr.tool_calls[ctx.tr.idx]
        name == tc.name
        raw == tc.arguments
        is_str == raw \in {"str_dict", "str_list", "str_null",
                           "str_malformed"}
        function_args == IF raw = "dict" THEN "dict"
                         ELSE IF is_str THEN json_loads(raw)
                         ELSE "None"
    IN  IF name = "None" \/ raw = "None"
        THEN InvalidToolCall(ctx, name)
        ELSE IF is_str /\ function_args = "JSONDecodeError"
        THEN ToolArgsError(ctx, name, "error: Malformed JSON", "malformed")
        ELSE IF raw # "dict" /\ ~is_str
        THEN ToolArgsError(ctx, name, "error: Unexpected type for args",
                           "bad_type")
        ELSE IF function_args = "None"
        THEN Continue(Resolve(ctx, "skipped"))
        ELSE Execute(ctx, name, function_args, outcome)

\* The generator is resumed after a tool_call event.
Dispatch(t, outcome) ==
    /\ turn[t].pc = "tool_call_sent"
    /\ CommitCtx(t, DispatchStep(Ctx(t), outcome))
    /\ UNCHANGED <<side_vars, index_vars, turns_started, tool_calls_seen, restarts, ops,
                   bootstrapped, inserted>>

\* The generator is resumed after a tool call's result or error event.
ResumeToolLoop(t) ==
    /\ turn[t].pc = "tool_event_sent"
    /\ CommitCtx(t, Continue(Ctx(t)))
    /\ UNCHANGED <<side_vars, index_vars, turns_started, tool_calls_seen, restarts, ops,
                   bootstrapped, inserted>>

\* The final call raised: an error message with role system is stored and
\* an error event with the same message_id is yielded.
FinalRaise(ctx) ==
    LET st1 == next_sequence(ctx.st)
        ctx1 == AppendMsg(
                    [ctx EXCEPT !.st = st1, !.u = @ + 1],
                    MkMsg("system", "Final response error", "None", << >>,
                          0, ctx.u + 1, ctx.tr.parent_id, st1.seq, MsgKeys))
        st2 == next_sequence(ctx1.st)
    IN  Yield([ctx1 EXCEPT !.st = st2],
              MkEvent("error", "final_response", "None", "exception text",
                      ctx.u + 1, ctx.tr.parent_id, st2.seq, 0, EventKeys))

\* The final call returned nothing, or a response without a message.
FinalEmpty(ctx) ==
    LET st1 == next_sequence(ctx.st)
    IN  Yield([ctx EXCEPT !.st = st1, !.u = @ + 1],
              MkEvent("error", "final_response", "None",
                      "No message received from LLM", ctx.u + 1,
                      ctx.tr.parent_id, st1.seq, 0, EventKeys))

\* The final step as it would be with a truthiness test of the content
\* (if content:) in place of the test against None.
FinalMessage_truthy(ctx, content) ==
    LET final_msg_id == ctx.u + 1
        st1 == next_sequence(ctx.st)
        ctx1 == [ctx EXCEPT !.st = st1, !.u = final_msg_id]
        kept == content \notin {"None", ""}
        ctx2 == IF kept
                THEN AppendMsg(ctx1,
                         MkMsg("assistant", content, "None", << >>, 0,
                               final_msg_id, ctx.tr.parent_id, st1.seq,
                               MsgKeys))
                ELSE ctx1
        st2 == next_sequence(ctx2.st)
    IN  IF kept
        THEN Yield([ctx2 EXCEPT !.st = st2],
                   MkEvent("success", "final_response", "None", content,
                           final_msg_id, ctx.tr.parent_id, st2.seq, 0,
                           EventKeys))
        ELSE Yield([ctx2 EXCEPT !.st = st2, !.u = @ + 1],
                   MkEvent("error", "final_response", "None",
                           "Final response missing content", ctx2.u + 1,
                           ctx.tr.parent_id, st2.seq, 0, EventKeys))

\* The final call returned a message: it takes a message_id and a sequence;
\* it is stored and reported only if its content is not None.
FinalMessage(ctx, content) ==
    LET final_msg_id == ctx.u + 1
        st1 == next_sequence(ctx.st)
        ctx1 == [ctx EXCEPT !.st = st1, !.u = final_msg_id]
        ctx2 == IF content # "None"
                THEN AppendMsg(ctx1,
                         MkMsg("assistant", content, "None", << >>, 0,
                               final_msg_id, ctx.tr.parent_id, st1.seq,
                               MsgKeys))
                ELSE ctx1
        st2 == next_sequence(ctx2.st)
    IN  IF content # "None"
        THEN Yield([ctx2 EXCEPT !.st = st2],
                   MkEvent("success", "final_response", "None", content,
                           final_msg_id, ctx.tr.parent_id, st2.seq, 0,
                           EventKeys))
        ELSE Yield([ctx2 EXCEPT !.st = st2, !.u = @ + 1],
                   MkEvent("error", "final_response", "None",
                           "Final response missing content", ctx2.u + 1,
                           ctx.tr.parent_id, st2.seq, 0, EventKeys))

\* The final client.chat returns or raises.
FinalStep(ctx, reply) ==
    LET ctx1 == [ctx EXCEPT !.tr.pc = "last_event_sent",
                            !.tr.final = IF reply.kind = "message"
                                         THEN IF reply.content = "None"
                                              THEN "null_content"
                                              ELSE "content"
                                         ELSE reply.kind]
    IN  CASE reply.kind = "raise" -> FinalRaise(ctx1)
          [] reply.kind = "message" -> FinalMessage(ctx1, reply.content)
          [] OTHER -> FinalEmpty(ctx1)

FinalReply(t, reply) ==
    /\ turn[t].pc = "final_call"
    /\ CommitCtx(t, FinalStep(Ctx(t), reply))
    /\ UNCHANGED <<side_vars, index_vars, turns_started, tool_calls_seen, restarts, ops,
                   bootstrapped, inserted>>

\* The generator is resumed after its last event and returns.
Finish(t) ==
    /\ turn[t].pc = "last_event_sent"
    /\ turn' = [turn EXCEPT ![t].pc = "done"]
    /\ UNCHANGED <<side_vars, index_vars, store_vars, uuid_counter, events, turns_started,
                   tool_calls_seen, restarts, ops, bootstrapped, inserted>>

\* ------------------------------------------ direct calls of the store's API
\* The bookkeeping of a session no set_system_message has pinned while empty.
NotTracked == [on |-> FALSE, msgs |-> << >>]

\* Messages a caller of the store hands to it, as the trimming script does:
\* a system message to pin and plain messages with role and content only.
ApiSystemMessage ==
    MkMsg("system", "You are a helpful assistant.", "None", << >>, 0, 0, 0,
          0, {})

ApiMessage(role, n) ==
    MkMsg(role, "text", "None", << >>, 0, n, 0, 0, {})

\* set_system_message(session_id, message)
ApiSetSystemMessage(s) ==
    /\ ops < MaxOps
    /\ Commit(s, set_system_message(SessionState(s), ApiSystemMessage))
    /\ inserted' =
           [inserted EXCEPT ![s] =
               IF Len(conversations[s]) = 0 THEN [on |-> TRUE, msgs |-> << >>]
               ELSE IF inserted[s].on THEN inserted[s]
               ELSE NotTracked]
    /\ ops' = ops + 1
    /\ UNCHANGED <<side_vars, index_vars, uuid_counter, turn, events, turns_started,
                   tool_calls_seen, restarts, bootstrapped>>

\* set_system_message(session_id, message) when the write of the file fails
ApiSetSystemMessageSaveFails(s) ==
    /\ ops < MaxOps
    /\ Commit(s, save_history_error(rebuild_history(
                     [SessionState(s) EXCEPT !.sysm = <<ApiSystemMessage>>])))
    /\ inserted' = [inserted EXCEPT ![s] = NotTracked]
    /\ ops' = ops + 1
    /\ UNCHANGED <<side_vars, index_vars, uuid_counter, turn, events, turns_started,
                   tool_calls_seen, restarts, bootstrapped>>

\* add_message(session_id, message) with a non-system message
ApiAddMessage(s, role) ==
    /\ ops < MaxOps
    /\ LET message == ApiMessage(role, uuid_counter + 1)
       IN  /\ Commit(s, add_message(SessionState(s), message, FALSE))
           /\ inserted' =
                  [inserted EXCEPT ![s] =
                      IF inserted[s].on
                      THEN [inserted[s] EXCEPT !.msgs = Append(@, message)]
                      ELSE inserted[s]]
    /\ uuid_counter' = uuid_counter + 1
    /\ ops' = ops + 1
    /\ UNCHANGED <<side_vars, index_vars, turn, events, turns_started, tool_calls_seen, restarts,
                   bootstrapped>>

\* The k messages of a batch: plain user messages.
BatchMessages(k) == [i \in 1..k |-> ApiMessage("user", uuid_counter + i)]

\* add_messages_batch(session_id, messages) with k messages
ApiAddMessagesBatch(s, k) ==
    /\ ops < MaxOps
    /\ Commit(s, add_messages_batch(SessionState(s), BatchMessages(k)))
    /\ inserted' =
           [inserted EXCEPT ![s] =
               IF inserted[s].on
               THEN [inserted[s] EXCEPT !.msgs = @ \o BatchMessages(k)]
               ELSE inserted[s]]
    /\ uuid_counter' = uuid_counter + k
    /\ ops' = ops + 1
    /\ UNCHANGED <<side_vars, index_vars, turn, events, turns_started, tool_calls_seen, restarts,
                   bootstrapped>>

\* record_function_attempt(session_id, function_name, args)
ApiRecordAttempt(s, function_name, args) ==
    /\ ops < MaxOps
    /\ Commit(s, record_function_attempt(SessionState(s), function_name,
                                         args))
    /\ ops' = ops + 1
    /\ UNCHANGED <<side_vars, index_vars, uuid_counter, turn, events, turns_started,
                   tool_calls_seen, restarts, bootstrapped, inserted>>

\* load_history(session_id)
ApiLoadHistory(s) ==
    /\ ops < MaxOps
    /\ Commit(s, load_history(SessionState(s)))
    /\ inserted' = [inserted EXCEPT ![s] = NotTracked]
    /\ ops' = ops + 1
    /\ UNCHANGED <<side_vars, index_vars, uuid_counter, turn, events, turns_started,
                   tool_calls_seen, restarts, bootstrapped>>

\* clear_session(session_id)
ApiClearSession(s) ==
    /\ ops < MaxOps
    /\ Commit(s, clear_session(SessionState(s)))
    /\ inserted' = [inserted EXCEPT ![s] = NotTracked]
    /\ ops' = ops + 1
    /\ UNCHANGED <<side_vars, index_vars, uuid_counter, turn, events, turns_started,
                   tool_calls_seen, restarts, bootstrapped>>

\* -------------------------------------------------- endpoint and process
\* websocket_endpoint on (re)connect: the messages read from the session's
\* file are added to the store with add_messages_batch.
Reconnect(s) ==
    /\ ops < MaxReconnects
    /\ \A t \in Tasks : turn[t].pc \in {"idle", "done"}
    /\ has_file[s]
    /\ Commit(s, add_messages_batch(SessionState(s), disk[s]))
    /\ ops' = ops + 1
    /\ UNCHANGED <<side_vars, index_vars, uuid_counter, turn, events, turns_started,
                   tool_calls_seen, restarts, bootstrapped, inserted>>

\* The process is restarted between turns: a new ChatHistoryManager with
\* empty dictionaries over the same history directory.
Restart ==
    /\ restarts < MaxRestarts
    /\ \A t \in Tasks : turn[t].pc \in {"idle", "done"}
    /\ conversations' = [s \in Sessions |-> << >>]
    /\ system_messages' = [s \in Sessions |-> << >>]
    /\ function_call_attempts' =
           [s \in Sessions |-> [k \in AttemptKeys |-> 0]]
    /\ sequence_counters' = [s \in Sessions |-> 0]
    /\ file_writes' = [s \in Sessions |-> 0]
    /\ turn' = [t \in Tasks |-> IdleTurn]
    /\ events' = [t \in Tasks |-> << >>]
    /\ restarts' = restarts + 1
    /\ bootstrapped' = [s \in Sessions |-> 0]
    /\ inserted' = [s \in Sessions |-> NotTracked]
    /\ session_retrievers' = [s \in Sessions |-> << >>]
    /\ memory_manager' = EmptyManager
    /\ UNCHANGED <<side_vars, disk, has_file, history_mtime, uuid_counter,
                   turns_started, tool_calls_seen, ops, clock, files,
                   collections, store_metadata, index_result, index_ops>>

\* ------------------------------------------------------------ specification
Init ==
    /\ conversations = [s \in Sessions |-> << >>]
    /\ system_messages = [s \in Sessions |-> << >>]
    /\ function_call_attempts =
           [s \in Sessions |-> [k \in AttemptKeys |-> 0]]
    /\ sequence_counters = [s \in Sessions |-> 0]
    /\ disk = [s \in Sessions |-> << >>]
    /\ has_file = [s \in Sessions |-> FALSE]
    /\ file_writes = [s \in Sessions |-> 0]
    /\ uuid_counter = 0
    /\ turn = [t \in Tasks |-> IdleTurn]
    /\ events = [t \in Tasks |-> << >>]
    /\ turns_started = 0
    /\ tool_calls_seen = 0
    /\ restarts = 0
    /\ ops = 0
    /\ bootstrapped = [s \in Sessions |-> 0]
    /\ inserted = [s \in Sessions |-> NotTracked]
    /\ InitIndex
    /\ InitTools
    /\ InitManager

Next ==
    \/ \E t \in Tasks, s \in TurnSessions, u \in UserInputs :
          StartTurn(t, s, u)
    \/ \E t \in Tasks, r \in InitialReplies : InitialReply(t, r)
    \/ \E t \in Tasks, o \in CallOutcomes : Dispatch(t, o)
    \/ \E t \in Tasks : ResumeToolLoop(t)
    \/ \E t \in Tasks, r \in FinalReplies : FinalReply(t, r)
    \/ \E t \in Tasks : Finish(t)

Spec == Init /\ [][Next]_vars

\* A step of the turn of task t other than its start: a client.chat call or
\* a tool callable returns or raises, or the consumer asks for the next
\* event.
TurnProgress(t) ==
    \/ \E r \in InitialReplies : InitialReply(t, r)
    \/ \E o \in CallOutcomes : Dispatch(t, o)
    \/ ResumeToolLoop(t)
    \/ \E r \in FinalReplies : FinalReply(t, r)
    \/ Finish(t)

\* Turns whose backend calls and tool callables all come back and whose
\* consumer keeps iterating.
SpecLive == Init /\ [][Next]_vars /\ \A t \in Tasks : WF_vars(TurnProgress(t))

\* Turns, with clients reconnecting and the process restarting in between.
NextRestore ==
    \/ Next
    \/ \E s \in TurnSessions : Reconnect(s)
    \/ Restart

SpecRestore == Init /\ [][NextRestore]_vars

\* The store driven directly through its API, on two sessions.
NextStore ==
    \/ \E s \in Sessions : ApiSetSystemMessage(s)
    \/ \E s \in Sessions, r \in {"user", "assistant"} : ApiAddMessage(s, r)
    \/ \E s \in Sessions : ApiLoadHistory(s)
    \/ \E s \in Sessions : ApiClearSession(s)
    \/ Restart

SpecStore == Init /\ [][NextStore]_vars

\* Batches of messages loaded into sessions with and without a pinned
\* system message.
NextBatch ==
    \/ \E s \in Sessions, k \in 1..MaxBatch : ApiAddMessagesBatch(s, k)
    \/ \E s \in Sessions : ApiSetSystemMessage(s)
    \/ \E s \in Sessions : ApiClearSession(s)

SpecBatch == Init /\ [][NextBatch]_vars

\* Attempts recorded on sessions with and without a pinned system message.
NextAttempts ==
    \/ \E s \in Sessions, n \in AttemptNames, a \in ArgDicts :
          ApiRecordAttempt(s, n, a)
    \/ \E s \in Sessions : ApiSetSystemMessage(s)

SpecAttempts == Init /\ [][NextAttempts]_vars

\* The store driven through its API with writes of the file that can fail.
NextStoreIO ==
    \/ NextStore
    \/ \E s \in Sessions : ApiSetSystemMessageSaveFails(s)

SpecStoreIO == Init /\ [][NextStoreIO]_vars

\* ------------------------------------------- connections to the ws endpoint
\* The websocket_endpoint coroutines the event loop runs side by side: one
\* per connection.
Handlers == {"t1", "t2"}

\* websocket_endpoint up to its message loop.  connect() keeps the session
\* id the client asked for when the session's file exists and takes a new
\* one otherwise; it replaces the session's entry in active_connections
\* without looking at what the replaced connection's coroutine is doing.
\* Messages read from the file are added with add_messages_batch.
Connect(t, s) ==
    /\ turn[t].pc \in {"idle", "done"}
    /\ IF has_file[s]
       THEN /\ ops < MaxReconnects
            /\ ops' = ops + 1
            /\ Commit(s, add_messages_batch(SessionState(s), disk[s]))
       ELSE /\ \A u \in Handlers : turn[u].session # s
            /\ UNCHANGED <<store_vars, ops>>
    /\ turn' = [turn EXCEPT ![t] = [IdleTurn EXCEPT !.session = s]]
    /\ events' = [events EXCEPT ![t] = << >>]
    /\ UNCHANGED <<side_vars, index_vars, uuid_counter, turns_started, tool_calls_seen, restarts,
                   bootstrapped, inserted>>

\* The message loop of a connection: receive_text returned, and
\* process_user_message iterates run_agent on the connection's session.
ReceiveText(t, user_input) ==
    /\ turn[t].session \in Sessions
    /\ StartTurn(t, turn[t].session, user_input)

InitConnections ==
    /\ conversations = [s \in Sessions |-> << >>]
    /\ system_messages = [s \in Sessions |-> << >>]
    /\ function_call_attempts =
           [s \in Sessions |-> [k \in AttemptKeys |-> 0]]
    /\ sequence_counters = [s \in Sessions |-> 0]
    /\ disk = [s \in Sessions |-> << >>]
    /\ has_file = [s \in Sessions |-> FALSE]
    /\ file_writes = [s \in Sessions |-> 0]
    /\ uuid_counter = 0
    /\ turn = [t \in Handlers |-> IdleTurn]
    /\ events = [t \in Handlers |-> << >>]
    /\ turns_started = 0
    /\ tool_calls_seen = 0
    /\ restarts = 0
    /\ ops = 0
    /\ bootstrapped = [s \in Sessions |-> 0]
    /\ inserted = [s \in Sessions |-> NotTracked]
    /\ InitIndex
    /\ InitTools
    /\ InitManager

NextConnections ==
    \/ \E t \in Handlers, s \in TurnSessions : Connect(t, s)
    \/ \E t \in Handlers, u \in UserInputs : ReceiveText(t, u)
    \/ \E t \in Handlers, r \in InitialReplies :
          /\ tool_calls_seen + Len(r.tool_calls) <= MaxConnToolCalls
          /\ InitialReply(t, r)
    \/ \E t \in Handlers, o \in CallOutcomes : Dispatch(t, o)
    \/ \E t \in Handlers : ResumeToolLoop(t)
    \/ \E t \in Handlers, r \in FinalReplies : FinalReply(t, r)
    \/ \E t \in Handlers : Finish(t)

SpecConnections == InitConnections /\ [][NextConnections]_vars

\* ------------------------------------------------ the consumer of run_agent
\* run_agent is an async generator: the code after a yield runs only when
\* the consumer asks for the next event.  A consumer that stops iterating
\* (its loop is left, or its task is cancelled) leaves the generator where
\* it is; closing it raises GeneratorExit at the yield, which no handler
\* of run_agent catches.
StopDraining(t) ==
    /\ turn[t].pc \in {"tool_call_sent", "tool_event_sent", "last_event_sent"}
    /\ turn' = [turn EXCEPT ![t].pc = "done"]
    /\ UNCHANGED <<side_vars, index_vars, store_vars, uuid_counter, events, turns_started,
                   tool_calls_seen, restarts, ops, bootstrapped, inserted>>

NextConsumer ==
    \/ Next
    \/ \E t \in Tasks : StopDraining(t)

SpecConsumer == Init /\ [][NextConsumer]_vars

\* --------------------------------------------------------- vector_store.py
\* The chroma database, the metadata files and session_retrievers, threaded
\* through the calls of one operation.
IndexState ==
    [col |-> collections, meta |-> store_metadata, sr |-> session_retrievers]

\* The value an operation returns, with the state it leaves: ret is << >>
\* for None, parsed tells whether the sources were read, rebuilt whether the
\* collection was deleted and created again, failed which step raised.
Out(ix, ret, parsed, rebuilt, failed) ==
    [col |-> ix.col, meta |-> ix.meta, sr |-> ix.sr, ret |-> ret,
     parsed |-> parsed, rebuilt |-> rebuilt, failed |-> failed]

\* os.path.exists / os.stat of a source file or of a session's history file
\* (named by its session).  The size of a history file is counted in lines.
Stat(path) ==
    IF path \in SourcePaths
    THEN [exists |-> files[path].exists, mtime |-> files[path].mtime,
          size |-> ByteSize[files[path].text]]
    ELSE [exists |-> has_file[path], mtime |-> history_mtime[path],
          size |-> Len(disk[path])]

\* Rank of a path in Python's string order.
SortRank(path) ==
    IF path \in SourcePaths THEN PathRank[path]
    ELSE IF path = "s1" THEN 2 ELSE 3

\* The digest of a list of "mtime:size" strings, taken as the list itself.
get_files_hash_unsorted(file_paths) ==
    IF file_paths = << >> THEN [hex |-> FALSE, data |-> << >>]
    ELSE LET existing == SelectSeq(file_paths, LAMBDA p : Stat(p).exists)
         IN  [hex |-> TRUE,
              data |-> [i \in 1..Len(existing) |->
                           <<Stat(existing[i]).mtime, Stat(existing[i]).size>>]]

\* get_files_hash: "" for no paths, else the md5 digest of the "mtime:size"
\* strings of the existing files in sorted(file_paths).
get_files_hash(file_paths) ==
    IF file_paths = << >> THEN [hex |-> FALSE, data |-> << >>]
    ELSE LET existing ==
                 SelectSeq(SortSeq(file_paths,
                                   LAMBDA a, b : SortRank(a) < SortRank(b)),
                           LAMBDA p : Stat(p).exists)
         IN  [hex |-> TRUE,
              data |-> [i \in 1..Len(existing) |->
                           <<Stat(existing[i]).mtime, Stat(existing[i]).size>>]]

\* save_store_metadata: the record names the configured EMBEDDING_MODEL,
\* whatever model the store was built with.
save_store_metadata(ix, files_hash, store_type) ==
    [ix EXCEPT !.meta[store_type] =
        <<[files_hash |-> files_hash, embedding_model |-> EMBEDDING_MODEL]>>]

\* load_store_metadata: << >> stands for {}.
load_store_metadata(ix, store_type) == ix.meta[store_type]

\* force_refresh or stored files_hash / embedding_model differ
needs_refresh(stored_metadata, current_files_hash, embedding_model, force_refresh) ==
    \/ force_refresh
    \/ stored_metadata = << >>
    \/ stored_metadata[1].files_hash /= current_files_hash
    \/ stored_metadata[1].embedding_model /= embedding_model

\* collection_context(client, name, reset=True): delete the collection if
\* it exists.
collection_context(ix, collection_name) ==
    [ix EXCEPT !.col[collection_name] =
        IF @.exists THEN [@ EXCEPT !.exists = FALSE, !.docs = << >>] ELSE @]

\* Chroma(client=..., collection_name=...): get or create the collection.
Chroma(ix, collection_name) ==
    [ix EXCEPT !.col[collection_name] =
        IF @.exists THEN @
        ELSE [exists |-> TRUE, gen |-> @.gen + 1, docs |-> << >>]]

\* vector_store.add_documents(documents=batch, ids=ids), over all batches
add_documents(ix, collection_name, documents) ==
    [ix EXCEPT !.col[collection_name].docs = @ \o documents]

\* vector_store.as_retriever(...)
as_retriever(ix, collection_name) ==
    <<Retriever(collection_name, ix.col[collection_name].gen)>>

\* batch_size of the add_documents loops (50 and 100), scaled to the number
\* of documents of the model
batch_size == 1

\* parse_csv_file: a Document per row; parse_text_file: one Document.
parse_file(path) ==
    IF path = CSV_FILE_PATH
    THEN (IF files[path].text = "header" THEN << >>
          ELSE <<Passage(files[path].text, "None", path)>>)
    ELSE <<Passage(files[path].text, "None", path)>>

\* parse_files_to_documents
RECURSIVE parse_files_to_documents(_)
parse_files_to_documents(file_paths) ==
    IF file_paths = << >> THEN << >>
    ELSE parse_file(file_paths[1]) \o parse_files_to_documents(Rest(file_paths))

\* json.loads(content) giving a dict with an inner "content".
unwrap_content(content) ==
    IF content = "{\"content\": \"hello\"}" THEN "hello" ELSE content

\* load_session_documents([<history_dir>/<session>.jsonl]): a document per
\* line that is not a system message and has content.
load_session_documents(session_id) ==
    LET kept == SelectSeq(disk[session_id],
                    LAMBDA m : /\ m.role /= "system"
                               /\ unwrap_content(m.content) \notin {"", "None"})
    IN  [i \in 1..Len(kept) |->
            Passage(unwrap_content(kept[i].content), session_id, session_id)]

\* Points an operation may fail at: loading the existing collection,
\* reading the sources, adding a batch of documents after `written` batches
\* went in.
Failures ==
    { [at |-> "none", written |-> 0], [at |-> "load", written |-> 0],
      [at |-> "parse", written |-> 0], [at |-> "write", written |-> 0],
      [at |-> "write", written |-> 1] }

\* The rebuild shared by both stores: delete and create the collection, add
\* the documents batch by batch and, if no batch failed, save the metadata.
replace_collection(ix, collection_name, documents, files_hash, store_type, fail) ==
    LET fresh == Chroma(collection_context(ix, collection_name),
                        collection_name)
    IN  IF fail.at = "write" /\ fail.written * batch_size < Len(documents)
        THEN [ok |-> FALSE,
              ix |-> add_documents(fresh, collection_name,
                         SubSeq(documents, 1, fail.written * batch_size))]
        ELSE [ok |-> TRUE,
              ix |-> save_store_metadata(
                         add_documents(fresh, collection_name, documents),
                         files_hash, store_type)]

\* setup_document_store
setup_document_store(ix, file_paths, embedding_model, collection_name, force_refresh, fail) ==
    LET existing_files == SelectSeq(file_paths, LAMBDA p : Stat(p).exists)
        current_files_hash == get_files_hash(existing_files)
        stored_metadata == load_store_metadata(ix, "documents")
        refresh == needs_refresh(stored_metadata, current_files_hash,
                                 embedding_model, force_refresh)
        loadable == ~refresh /\ ix.col[collection_name].exists
        load_failed == IF loadable /\ fail.at = "load" THEN "load" ELSE "none"
        documents == IF fail.at = "parse" THEN << >>
                     ELSE parse_files_to_documents(existing_files)
        done == replace_collection(ix, collection_name, documents,
                    current_files_hash, "documents", fail)
    IN  IF existing_files = << >> THEN Out(ix, << >>, FALSE, FALSE, "none")
        ELSE IF loadable /\ fail.at /= "load"
        THEN Out(ix, as_retriever(ix, collection_name), FALSE, FALSE, "none")
        ELSE IF fail.at = "parse" THEN Out(ix, << >>, TRUE, FALSE, "parse")
        ELSE IF documents = << >>
        THEN Out(ix, << >>, TRUE, FALSE, load_failed)
        ELSE IF ~done.ok THEN Out(done.ix, << >>, TRUE, TRUE, "write")
        ELSE Out(done.ix, as_retriever(done.ix, collection_name), TRUE, TRUE,
                 load_failed)

\* create_empty_memory_store
create_empty_memory_store(ix, parsed, failed) ==
    LET fresh == Chroma(collection_context(ix, MEMORY_COLLECTION),
                        MEMORY_COLLECTION)
    IN  Out(fresh, as_retriever(fresh, MEMORY_COLLECTION), parsed, TRUE,
            failed)

\* session_retrievers[session_id] = retriever
keep_retriever(out, session_id) ==
    [out EXCEPT !.sr[session_id] = out.ret]

\* setup_memory_store in isolated mode
setup_memory_store(ix, embedding_model, force_refresh, session_id, fail) ==
    LET session_files == <<session_id>>
        current_files_hash == get_files_hash(session_files)
        stored_metadata == load_store_metadata(ix, "memory")
        refresh == needs_refresh(stored_metadata, current_files_hash,
                                 embedding_model, force_refresh)
        loadable == ~refresh /\ ix.col[MEMORY_COLLECTION].exists
        load_failed == IF loadable /\ fail.at = "load" THEN "load" ELSE "none"
        all_memory_documents ==
            IF fail.at = "parse" THEN << >>
            ELSE load_session_documents(session_id)
        done == replace_collection(ix, MEMORY_COLLECTION,
                    all_memory_documents, current_files_hash, "memory",
                    fail)
    IN  IF session_id = "None" THEN Out(ix, << >>, FALSE, FALSE, "none")
        ELSE IF ~Stat(session_id).exists
        THEN keep_retriever(create_empty_memory_store(ix, FALSE, "none"),
                            session_id)
        ELSE IF loadable /\ fail.at /= "load"
        THEN keep_retriever(
                 Out(ix, as_retriever(ix, MEMORY_COLLECTION), FALSE, FALSE,
                     "none"),
                 session_id)
        ELSE IF fail.at = "parse"
        THEN create_empty_memory_store(ix, TRUE, "parse")
        ELSE IF all_memory_documents = << >>
        THEN create_empty_memory_store(ix, TRUE, load_failed)
        ELSE IF ~done.ok THEN create_empty_memory_store(done.ix, TRUE, "write")
        ELSE keep_retriever(
                 Out(done.ix, as_retriever(done.ix, MEMORY_COLLECTION),
                     TRUE, TRUE, load_failed),
                 session_id)

\* remove_session_retriever of vector_store.py: delete_collection() on the
\* session's retriever, then forget the retriever.  by_name tells whether
\* the delete of a retriever whose collection was since replaced removes
\* the collection now under that name.
remove_session_retriever(ix, session_id, by_name) ==
    IF ix.sr[session_id] = << >> THEN ix
    ELSE LET r == ix.sr[session_id][1]
         IN  [ix EXCEPT
                 !.col[r.name] =
                     IF @.exists /\ (@.gen = r.gen \/ by_name)
                     THEN [@ EXCEPT !.exists = FALSE, !.docs = << >>]
                     ELSE @,
                 !.sr[session_id] = << >>]

\* ---------------------------------------------------- tools/query_memory.py
\* set_memory_retriever(r, session_id)
set_memory_retriever(mm, r, session_id) ==
    IF SHARED_MEMORY_ENABLED \/ session_id = "None"
    THEN [mm EXCEPT !.global = r]
    ELSE [mm EXCEPT !.session[session_id] = r]

\* SessionMemoryManager.get_retriever
get_retriever(mm, session_id) ==
    IF SHARED_MEMORY_ENABLED THEN mm.global
    ELSE IF session_id /= "None" THEN mm.session[session_id]
    ELSE << >>

\* query_memory.remove_session_retriever
forget_session_retriever(mm, session_id) ==
    [mm EXCEPT !.session[session_id] = << >>]

\* active_retriever.invoke(query) on a collection that holds docs, then the
\* filter on metadata session_id.
filter_results(docs, session_id) ==
    IF ~SHARED_MEMORY_ENABLED /\ session_id /= "None"
    THEN SelectSeq(docs, LAMBDA d : d.session_id = session_id)
    ELSE docs

\* ------------------------------------------------------- index operations
\* What an operation's sources hold when it is called.
Sources(paths) ==
    [i \in 1..Len(paths) |->
        IF paths[i] \in SourcePaths
        THEN [exists |-> files[paths[i]].exists,
              mtime |-> files[paths[i]].mtime,
              lines |-> <<files[paths[i]].text>>]
        ELSE [exists |-> has_file[paths[i]],
              mtime |-> history_mtime[paths[i]],
              lines |-> [j \in 1..Len(disk[paths[i]]) |->
                            disk[paths[i]][j].content]]]

\* Lists of source files a caller passes.
PathLists ==
    { << >>, <<CSV_FILE_PATH>>,
      <<ORDER_FILE_PATH, CSV_FILE_PATH>>, <<CSV_FILE_PATH, ORDER_FILE_PATH>> }

\* Time passes by one unit of st_mtime.
Tick ==
    /\ clock < MaxClock
    /\ clock' = clock + 1
    /\ UNCHANGED <<side_vars, store_vars, uuid_counter, turn, events, turns_started,
                   tool_calls_seen, restarts, ops, bootstrapped, inserted,
                   files, collections, store_metadata, session_retrievers,
                   memory_manager, index_result, index_ops>>

\* A source file is written.
WriteFile(path, text) ==
    /\ files' = [files EXCEPT ![path] =
                    [exists |-> TRUE, mtime |-> clock, text |-> text]]
    /\ index_result' = [NoResult EXCEPT !.op = "write", !.target = path]
    /\ UNCHANGED <<side_vars, store_vars, uuid_counter, turn, events, turns_started,
                   tool_calls_seen, restarts, ops, bootstrapped, inserted,
                   clock, collections, store_metadata, session_retrievers,
                   memory_manager, index_ops>>

\* Two source files, each holding a text the other may hold, are renamed
\* into each other's place.
SwapFiles ==
    /\ files[ORDER_FILE_PATH].exists /\ files[CSV_FILE_PATH].exists
    /\ files[CSV_FILE_PATH].text \in TextsOf(ORDER_FILE_PATH)
    /\ files' = [files EXCEPT ![ORDER_FILE_PATH] = files[CSV_FILE_PATH],
                              ![CSV_FILE_PATH] = files[ORDER_FILE_PATH]]
    /\ index_result' = [NoResult EXCEPT !.op = "swap"]
    /\ UNCHANGED <<side_vars, store_vars, uuid_counter, turn, events, turns_started,
                   tool_calls_seen, restarts, ops, bootstrapped, inserted,
                   clock, collections, store_metadata, session_retrievers,
                   memory_manager, index_ops>>

\* Write an operation's state back and report it.
CommitIndex(out, result) ==
    /\ collections' = out.col
    /\ store_metadata' = out.meta
    /\ session_retrievers' = out.sr
    /\ index_result' = result
    /\ index_ops' = index_ops + 1
    /\ UNCHANGED <<side_vars, store_vars, uuid_counter, turn, events, turns_started,
                   tool_calls_seen, restarts, ops, bootstrapped, inserted,
                   clock, files>>

\* vector_store(file_paths, embedding_model=..., force_refresh=...): the
\* document store
SetupDocumentStore(file_paths, embedding_model, force_refresh, fail) ==
    /\ index_ops < MaxIndexOps
    /\ LET out == setup_document_store(IndexState, file_paths,
                      embedding_model, COLLECTION_NAME, force_refresh, fail)
       IN  CommitIndex(out,
               IndexResult("documents", "documents", embedding_model,
                   force_refresh, file_paths, out.failed, out.ret, out.parsed,
                   out.rebuilt, Sources(file_paths), << >>, FALSE))
    /\ UNCHANGED memory_manager

\* vector_store(..., enable_memory=True, session_id=...): the memory store
SetupMemoryStore(session_id, embedding_model, force_refresh, fail) ==
    /\ index_ops < MaxIndexOps
    /\ LET out == setup_memory_store(IndexState, embedding_model,
                      force_refresh, session_id, fail)
       IN  CommitIndex(out,
               IndexResult("memory", session_id, embedding_model,
                   force_refresh, <<session_id>>, out.failed, out.ret, out.parsed,
                   out.rebuilt,
                   IF session_id = "None" THEN << >>
                   ELSE Sources(<<session_id>>),
                   << >>, FALSE))
    /\ UNCHANGED memory_manager

\* set_memory_retriever(memory_retriever, session_id) with the retriever
\* setup_memory_store kept for the session
SetMemoryRetriever(session_id) ==
    /\ session_retrievers[session_id] /= << >>
    /\ memory_manager' =
           set_memory_retriever(memory_manager,
               session_retrievers[session_id], session_id)
    /\ index_result' = [NoResult EXCEPT !.op = "set", !.target = session_id]
    /\ UNCHANGED <<side_vars, store_vars, uuid_counter, turn, events, turns_started,
                   tool_calls_seen, restarts, ops, bootstrapped, inserted,
                   clock, files, collections, store_metadata,
                   session_retrievers, index_ops>>

\* vector_store.remove_session_retriever(session_id)
RemoveSessionRetriever(session_id, by_name) ==
    /\ index_ops < MaxIndexOps
    /\ CommitIndex(
           Out(remove_session_retriever(IndexState, session_id, by_name),
               << >>, FALSE, FALSE, "none"),
           [NoResult EXCEPT !.op = "remove", !.target = session_id])
    /\ UNCHANGED memory_manager

\* WebSocketManager.disconnect(session_id): the teardown of a session
Disconnect(session_id) ==
    /\ index_ops < MaxIndexOps
    /\ memory_manager' = forget_session_retriever(memory_manager, session_id)
    /\ index_result' =
           [NoResult EXCEPT !.op = "disconnect", !.target = session_id]
    /\ index_ops' = index_ops + 1
    /\ UNCHANGED <<side_vars, store_vars, uuid_counter, turn, events, turns_started,
                   tool_calls_seen, restarts, ops, bootstrapped, inserted,
                   clock, files, collections, store_metadata,
                   session_retrievers>>

\* query_memory(query, session_id) called by run_agent in a turn of session
\* caller with the session_id the backend supplied.  A retriever whose
\* collection was replaced raises or reads the collection now under its
\* name (reads_current).
QueryMemory(caller, session_id, reads_current) ==
    /\ index_ops < MaxIndexOps
    /\ LET active_retriever == get_retriever(memory_manager, session_id)
           r == active_retriever[1]
           c == collections[r.name]
           found == active_retriever /= << >> /\ c.exists
                        /\ (c.gen = r.gen \/ reads_current)
       IN  index_result' =
               [NoResult EXCEPT
                   !.op = "query", !.target = caller,
                   !.paths = <<session_id>>,
                   !.passages =
                       IF found THEN filter_results(c.docs, session_id)
                       ELSE << >>,
                   !.error = ~found]
    /\ index_ops' = index_ops + 1
    /\ UNCHANGED <<side_vars, store_vars, uuid_counter, turn, events, turns_started,
                   tool_calls_seen, restarts, ops, bootstrapped, inserted,
                   clock, files, collections, store_metadata,
                   session_retrievers, memory_manager>>

\* A message is saved to a session's history file.
SaveHistory(s, role) ==
    /\ ops < MaxHistoryOps
    /\ ApiAddMessage(s, role)

\* A system message is pinned and saved to a session's history file.
SaveSystemMessage(s) ==
    /\ ops < MaxHistoryOps
    /\ ApiSetSystemMessage(s)

\* The document store built and refreshed while its source files change.
NextDocuments ==
    \/ Tick
    \/ \E p \in SourcePaths : \E x \in TextsOf(p) : WriteFile(p, x)
    \/ SwapFiles
    \/ \E fp \in PathLists, m \in EmbeddingModels, force \in BOOLEAN,
          fail \in Failures :
          SetupDocumentStore(fp, m, force, fail)

SpecDocuments == Init /\ [][NextDocuments]_vars

\* The document store kept fresh without failures or forced refreshes
\* while its source files change.
NextFingerprint ==
    \/ Tick
    \/ \E p \in SourcePaths : \E x \in TextsOf(p) : WriteFile(p, x)
    \/ SwapFiles
    \/ \E fp \in PathLists :
          SetupDocumentStore(fp, EMBEDDING_MODEL, FALSE,
                             [at |-> "none", written |-> 0])

SpecFingerprint == Init /\ [][NextFingerprint]_vars

\* The memory stores of two sessions built, refreshed, queried and torn
\* down while their history files grow.
NextMemory ==
    \/ Tick
    \/ \E s \in Sessions : SaveHistory(s, "user")
    \/ \E s \in Sessions : SaveSystemMessage(s)
    \/ \E s \in Sessions \cup {"None"}, m \in EmbeddingModels,
          force \in BOOLEAN, fail \in Failures :
          SetupMemoryStore(s, m, force, fail)
    \/ \E s \in Sessions : SetMemoryRetriever(s)
    \/ \E s \in Sessions, by_name \in BOOLEAN :
          RemoveSessionRetriever(s, by_name)
    \/ \E s \in Sessions : Disconnect(s)
    \/ \E a \in Sessions, s \in Sessions \cup {"None"}, rc \in BOOLEAN :
          QueryMemory(a, s, rc)

SpecMemory == Init /\ [][NextMemory]_vars

\* ------------------------------------------------ tools/query_documents.py
\* A source file is put in place before the document store is first set up.
PlaceSource(path, text) ==
    /\ index_ops = 0
    /\ ~files[path].exists
    /\ WriteFile(path, text)

\* query_documents(query, retriever_override) with the retriever the latest
\* setup_document_store call returned: active_retriever.invoke(query).  A
\* retriever always reads the collection it was made on here, since no
\* setup ran after the one that returned it.
QueryDocuments ==
    /\ index_result.op \in {"documents", "query_documents"}
    /\ index_result.ret /= << >>
    /\ LET c == collections[index_result.ret[1].name]
       IN  index_result' =
               [index_result EXCEPT !.op = "query_documents",
                                    !.passages = c.docs]
    /\ UNCHANGED <<side_vars, store_vars, uuid_counter, turn, events, turns_started,
                   tool_calls_seen, restarts, ops, bootstrapped, inserted,
                   clock, files, collections, store_metadata,
                   session_retrievers, memory_manager, index_ops>>

\* The document store set up over sources that do not change, with forced
\* refreshes and failures, and queried through the retrievers it returns.
NextRebuild ==
    \/ \E p \in SourcePaths : \E x \in TextsOf(p) : PlaceSource(p, x)
    \/ \E force \in BOOLEAN, fail \in Failures :
          SetupDocumentStore(<<ORDER_FILE_PATH, CSV_FILE_PATH>>,
                             EMBEDDING_MODEL, force, fail)
    \/ QueryDocuments

SpecRebuild == Init /\ [][NextRebuild]_vars

\* registry.register(tool); a ValueError leaves the caller where it was.
Register(tool) ==
    LET reg == register([tools |-> tools,
                         validation_results |-> validation_results,
                         raised |-> FALSE], tool)
    IN  /\ tools' = reg.tools
        /\ validation_results' = reg.validation_results
        /\ UNCHANGED <<tool_definitions, available_functions, call,
                       connection_vars, index_vars, store_vars, uuid_counter,
                       turn, events, turns_started, tool_calls_seen, restarts,
                       ops, bootstrapped, inserted>>

\* core/config.py: TOOL_DEFINITIONS, AVAILABLE_FUNCTIONS = load_tools(), once
\* at import.
LoadTools(dir) ==
    /\ tool_definitions = << >>
    /\ call.outcome = "none"
    /\ tool_definitions' = load_tools(dir).tool_definitions
    /\ available_functions' = load_tools(dir).available_functions
    /\ UNCHANGED <<tools, validation_results, call, connection_vars,
                   index_vars, store_vars, uuid_counter, turn, events,
                   turns_started, tool_calls_seen, restarts, ops, bootstrapped,
                   inserted>>

\* agent.py 278-284 and 368-395 for a tool call whose arguments are a JSON
\* object: the callable is looked up by name and called with the arguments
\* as keywords.
CallTool(name, function_args) ==
    /\ call' = [name |-> name, args |-> function_args,
                outcome |-> IF available_functions[name] = NoFunction
                            THEN "tool_missing"
                            ELSE IF binds(name, function_args)
                            THEN "invoked"
                            ELSE "TypeError"]
    /\ UNCHANGED <<tools, validation_results, tool_definitions,
                   available_functions, connection_vars, index_vars,
                   store_vars, uuid_counter, turn, events, turns_started,
                   tool_calls_seen, restarts, ops, bootstrapped, inserted>>

NextTools ==
    \/ \E tool \in ToolObjects : Register(tool)
    \/ \E dir \in Directories : LoadTools(dir)
    \/ \E name \in FunctionNames, function_args \in ArgObjects :
          CallTool(name, function_args)

SpecTools == Init /\ [][NextTools]_vars

\* ------------------------------------------- server/websocket.py: replacement
\* A message reaches the session's history file before any reconnect.
PersistMessage(s) ==
    /\ ops < MaxReconnects
    /\ ApiAddMessage(s, "user")

\* websocket_endpoint from accept to the message loop for the websocket w
\* asking for session s.  connect() keeps s when its file exists and takes a
\* fresh id otherwise, closes the websocket registered under the id and
\* registers w; the endpoint then adds the file's messages to the store.
ConnectSocket(w, s) ==
    /\ handler[w].pc = "new"
    /\ has_file[s] \/ (active_connections[s] = NoSocket
                       /\ \A v \in WebSockets : handler[v].session # s)
    /\ active_connections' = [active_connections EXCEPT ![s] = w]
    /\ handler' =
           [v \in WebSockets |->
               IF v = w
               THEN [session |-> s, pc |-> "connected", open |-> TRUE]
               ELSE IF v = active_connections[s]
               THEN [handler[v] EXCEPT !.open = FALSE]
               ELSE handler[v]]
    /\ IF has_file[s]
       THEN Commit(s, add_messages_batch(SessionState(s), disk[s]))
       ELSE UNCHANGED store_vars
    /\ UNCHANGED <<tool_vars, index_vars, uuid_counter, turn, events,
                   turns_started, tool_calls_seen, restarts, ops,
                   bootstrapped, inserted>>

\* The coroutine of w leaves its try block (its websocket was closed, the
\* client went away, or a step raised) and runs the finally clause:
\* ws_manager.disconnect(session_id).
EndHandler(w) ==
    /\ handler[w].pc = "connected"
    /\ LET session_id == handler[w].session
       IN  IF active_connections[session_id] # NoSocket
           THEN /\ memory_manager' =
                       IF SHARED_MEMORY_ENABLED THEN memory_manager
                       ELSE forget_session_retriever(memory_manager,
                                                     session_id)
                /\ active_connections' =
                       [active_connections EXCEPT ![session_id] = NoSocket]
           ELSE UNCHANGED <<memory_manager, active_connections>>
    /\ handler' = [handler EXCEPT ![w].pc = "ended", ![w].open = FALSE]
    /\ UNCHANGED <<tool_vars, store_vars, uuid_counter, turn, events,
                   turns_started, tool_calls_seen, restarts, ops,
                   bootstrapped, inserted, clock, files, collections,
                   store_metadata, session_retrievers, index_result,
                   index_ops>>

NextReplace ==
    \/ \E s \in Sessions : PersistMessage(s)
    \/ \E w \in WebSockets, s \in Sessions : ConnectSocket(w, s)
    \/ \E w \in WebSockets : EndHandler(w)

SpecReplace == Init /\ [][NextReplace]_vars

\* ------------------------------------------- ChatHistoryManager: all operations
\* next_sequence(session_id)
ApiNextSequence(s) ==
    /\ ops < MaxOps
    /\ Commit(s, next_sequence(SessionState(s)))
    /\ ops' = ops + 1
    /\ UNCHANGED <<side_vars, index_vars, uuid_counter, turn, events,
                   turns_started, tool_calls_seen, restarts, bootstrapped,
                   inserted>>

\* One call of a method of the store on session s.
StoreOp(s) ==
    \/ ApiSetSystemMessage(s)
    \/ \E r \in {"user", "assistant"} : ApiAddMessage(s, r)
    \/ \E k \in 1..MaxBatch : ApiAddMessagesBatch(s, k)
    \/ ApiNextSequence(s)
    \/ \E n \in AttemptNames, a \in ArgDicts : ApiRecordAttempt(s, n, a)
    \/ ApiLoadHistory(s)
    \/ ApiClearSession(s)

NextSessions ==
    \/ \E s \in Sessions : ops < MaxSessionOps /\ ApiSetSystemMessage(s)
    \/ \E s \in Sessions, r \in {"user", "assistant"} :
          ops < MaxSessionOps /\ ApiAddMessage(s, r)
    \/ \E s \in Sessions, k \in 1..MaxBatch :
          ops < MaxSessionOps /\ ApiAddMessagesBatch(s, k)
    \/ \E s \in Sessions : ops < MaxSessionOps /\ ApiNextSequence(s)
    \/ \E s \in Sessions, n \in AttemptNames, a \in ArgDicts :
          ops < MaxSessionOps /\ ApiRecordAttempt(s, n, a)
    \/ \E s \in Sessions : ops < MaxSessionOps /\ ApiLoadHistory(s)
    \/ \E s \in Sessions : ops < MaxSessionOps /\ ApiClearSession(s)

SpecSessions == Init /\ [][NextSessions]_vars

\* ==================================================================== claims
Last(xs) == xs[Len(xs)]

IsToolMsg(m) == m.role = "tool"
IsAssistantMsg(m) == m.role = "assistant"

\* A turn has ended its run_agent code (the last event is out).
Ended(tr) == tr.pc \in {"last_event_sent", "done"}

\* The first reply was plain content without tool calls.
DirectReply(tr) ==
    tr.initial = "message" /\ tr.content # "" /\ Len(tr.tool_calls) = 0

\* C1: when a generation-backend step fails (the first call raises or
\* returns no usable message, the final call raises or returns no message),
\* the session history after the step equals the history as it was just
\* before that backend call.
C1_FailedStepAppendsNothing ==
    \A t \in Tasks :
        LET tr == turn[t]
        IN  (/\ tr.pc = "last_event_sent"
             /\ \/ tr.initial \in {"raise", "no_message"}
                \/ tr.final \in {"raise", "no_response", "empty_message"})
            => conversations[tr.session] = tr.before

\* C2: when tool dispatch finishes, the turn has appended exactly one
\* role: tool message per tool call of the reply, in the order of the tool
\* calls, whatever the outcome of each call.
C2_OneToolMessagePerCall ==
    \A t \in Tasks :
        LET tr == turn[t]
            tool_msgs == SelectSeq(tr.appended, IsToolMsg)
        IN  (tr.pc = "final_call" /\ Len(tr.tool_calls) > 0)
            => /\ Len(tool_msgs) = Len(tr.tool_calls)
               /\ \A i \in 1..Len(tool_msgs) :
                      tool_msgs[i].tool_call_id = tr.resolved[i].tool_call_id

\* C3: a failure local to one tool call never aborts the turn: the loop goes
\* through the tool calls one by one, the turn ends only after every tool
\* call of the reply has been dealt with and the final call has been made.
C3_ToolFailureDoesNotAbort ==
    \A t \in Tasks :
        LET tr == turn[t]
        IN  /\ tr.pc = "tool_call_sent" => Len(tr.resolved) = tr.idx - 1
            /\ tr.pc = "tool_event_sent" => Len(tr.resolved) = tr.idx
            /\ (tr.pc = "final_call" \/ (Ended(tr) /\ Len(tr.tool_calls) > 0))
               => /\ Len(tr.resolved) = Len(tr.tool_calls)
                  /\ tr.calls = 2
            /\ (Ended(tr) /\ Len(tr.tool_calls) > 0) => tr.final # "None"

C3_Witness ==
    \E t \in Tasks :
        /\ turn[t].pc = "last_event_sent"
        /\ Len(turn[t].resolved) = 2
        /\ turn[t].resolved[1].kind \in
               {"malformed", "missing", "mismatch", "runtime"}
        /\ turn[t].final = "content"

IsToolCallEvent(e, id) ==
    e.stage = "tool_call" /\ e.status = "success" /\ e.tool_call_id = id

IsToolOutcomeEvent(e) ==
    \/ e.stage \in {"tool_result", "tool_args", "tool_exec", "tool_missing"}
    \/ e.stage = "tool_call" /\ e.status = "error"

\* C4: within one turn the tool_call event of a tool call is out before the
\* call is resolved or executed and before its result or error event; all
\* tool events precede the final_response event; the sequence values of the
\* turn's successive events are strictly increasing.
C4_EventOrder ==
    \A t \in Tasks :
        LET tr == turn[t]
            ev == events[t]
        IN  /\ \A k \in 1..Len(tr.resolved) :
                   \E i \in 1..Len(ev) :
                       IsToolCallEvent(ev[i], tr.resolved[k].tool_call_id)
            /\ tr.pc = "tool_call_sent"
               => /\ IsToolCallEvent(Last(ev), tr.tool_call_id)
                  /\ \A k \in 1..Len(tr.resolved) :
                         tr.resolved[k].tool_call_id # tr.tool_call_id
            /\ \A j \in 1..Len(ev) :
                   IsToolOutcomeEvent(ev[j])
                   => \E i \in 1..(j - 1) :
                          IsToolCallEvent(ev[i], ev[j].tool_call_id)
            /\ \A j \in 1..Len(ev) :
                   ev[j].stage = "final_response" => j = Len(ev)
            /\ \A i, j \in 1..Len(ev) :
                   (/\ i < j
                    /\ "sequence" \in ev[i].keys
                    /\ "sequence" \in ev[j].keys)
                   => ev[i].sequence < ev[j].sequence

C4_Witness ==
    \E t \in Tasks :
        /\ Len(events[t]) = 3
        /\ events[t][1].stage = "tool_call"
        /\ events[t][2].stage = "tool_result"
        /\ events[t][3].stage = "final_response"
        /\ events[t][3].status = "success"

\* C5: a turn calls the backend exactly once when the first call fails,
\* returns no usable message, or returns non-empty content without tool
\* calls; otherwise it calls it exactly once more, after every tool call has
\* been dealt with and with the history as the tool calls left it.
C5_BackendCalls ==
    \A t \in Tasks :
        LET tr == turn[t]
            h == conversations[tr.session]
            k == Min(Len(tr.appended), max_history)
        IN  /\ tr.pc \in {"initial_call", "tool_call_sent", "tool_event_sent"}
               => tr.calls = 1
            /\ Ended(tr)
               => IF tr.initial \in {"raise", "no_message"} \/ DirectReply(tr)
                  THEN tr.calls = 1 /\ tr.final = "None"
                  ELSE tr.calls = 2 /\ tr.final # "None"
            /\ tr.pc = "final_call"
               => /\ tr.calls = 2
                  /\ Len(tr.sent) = 2
                  /\ Len(tr.resolved) = Len(tr.tool_calls)
                  /\ tr.sent[2] = h
                  /\ SubSeq(h, Len(h) - k + 1, Len(h))
                       = SubSeq(tr.appended, Len(tr.appended) - k + 1,
                                Len(tr.appended))

C5_Witness ==
    \E t \in Tasks :
        /\ turn[t].pc = "final_call"
        /\ turn[t].content = ""
        /\ Len(turn[t].tool_calls) = 0

\* C6: if the first reply has non-empty content and no tool calls, the turn
\* appends exactly one assistant message with that content, emits exactly
\* one event (success, initial_response, that content) and ends without a
\* final-response step.
C6_DirectReply ==
    \A t \in Tasks :
        LET tr == turn[t]
            s == tr.session
        IN  DirectReply(tr)
            => /\ Ended(tr)
               /\ Len(SelectSeq(tr.appended, IsAssistantMsg)) = 1
               /\ Last(tr.appended).role = "assistant"
               /\ Last(tr.appended).content = tr.content
               /\ tr.pc = "last_event_sent"
                  => /\ Len(conversations[s]) > 0
                     /\ Last(conversations[s]) = Last(tr.appended)
               /\ Len(events[t]) = 1
               /\ events[t][1].status = "success"
               /\ events[t][1].stage = "initial_response"
               /\ events[t][1].payload = tr.content
               /\ tr.calls = 1
               /\ tr.final = "None"

C6_Witness ==
    \E t \in Tasks :
        /\ turn[t].pc = "done"
        /\ DirectReply(turn[t])
        /\ turn[t].content = "Hello!"

\* C7: in a session whose system prompt was inserted by run_agent's
\* bootstrap step, the system message stays the first element of
\* get_recent_messages(session) however many messages follow.
C7_SystemPromptStaysFirst ==
    \A s \in Sessions :
        bootstrapped[s] # 0
        => /\ Len(get_recent_messages(SessionState(s))) > 0
           /\ get_recent_messages(SessionState(s))[1].role = "system"
           /\ get_recent_messages(SessionState(s))[1].message_id
                = bootstrapped[s]

\* C8: for a session with a system message pinned by set_system_message,
\* after add_message calls that inserted n non-system messages the list
\* get_recent_messages(session) is the system message followed by the last
\* min(n, max_history) of them in insertion order.
C8_PinnedRetention ==
    \A s \in Sessions :
        LET msgs == inserted[s].msgs
            n == Len(msgs)
            k == Min(n, max_history)
        IN  inserted[s].on
            => get_recent_messages(SessionState(s))
                 = <<ApiSystemMessage>> \o SubSeq(msgs, n - k + 1, n)

C8_Witness ==
    \E s \in Sessions :
        inserted[s].on /\ Len(inserted[s].msgs) = max_history + 1

\* C9: every value handed out by next_sequence is strictly greater than the
\* sequence of every message already in the session's history, restored
\* messages included.
C9_SequenceNeverReused ==
    [][\A s \in Sessions :
          sequence_counters'[s] > sequence_counters[s]
          => \A i \in 1..Len(conversations[s]) :
                 conversations[s][i].sequence < sequence_counters[s] + 1]_vars

\* C10: after any number of turns that do not overlap, the sequence values
\* of the messages of get_recent_messages(session), in list order, are
\* strictly increasing without gaps: every stored message carries a sequence
\* and consecutive messages carry consecutive values.
C10_SequenceNoGaps ==
    (/\ restarts = 0
     /\ ops = 0
     /\ \A t \in Tasks : turn[t].pc \in {"idle", "done"})
    => \A s \in Sessions :
           LET h == get_recent_messages(SessionState(s))
           IN  \A i \in 1..Len(h) :
                   /\ "sequence" \in h[i].keys
                   /\ i > 1 => h[i].sequence = h[i - 1].sequence + 1

\* A turn that has ingested its user message and has not yet produced its
\* last event.
InProgress(tr) ==
    tr.pc \in {"initial_call", "tool_call_sent", "tool_event_sent",
               "final_call"}

\* C11: a session never has two turns in progress at the same time: a second
\* turn on a session does not ingest its user message before the previous
\* turn on that session has finished, also when a new connection re-attaches
\* to the session while the replaced connection's turn awaits the backend.
C11_OneTurnPerSession ==
    \A t \in DOMAIN turn : \A u \in DOMAIN turn :
        (t # u /\ InProgress(turn[t]) /\ InProgress(turn[u]))
        => turn[t].session # turn[u].session

\* C12: a turn whose first reply carried tool calls runs to completion
\* whether or not the consumer keeps asking for events: when the turn is
\* over every tool call of the reply has been dealt with and the final
\* generation call has been made.
C12_RunsWithoutConsumer ==
    \A t \in Tasks :
        LET tr == turn[t]
        IN  (tr.pc = "done" /\ Len(tr.tool_calls) > 0)
            => /\ Len(tr.resolved) = Len(tr.tool_calls)
               /\ tr.calls = 2
               /\ tr.final # "None"

\* C13: round trip: for every session state reached through
\* set_system_message and add_message (the system prompt and the error
\* messages run_agent stores included), save followed by load on a fresh
\* store yields the same ordered history, and the session is pinned after
\* the load if and only if it was pinned before the save.
C13_SaveLoadRoundTrip ==
    \A s \in Sessions :
        LET st == SessionState(s)
            saved == save_history(st)
            loaded == load_history([EmptySession EXCEPT
                                       !.disk = saved.disk, !.file = TRUE])
        IN  Len(st.conv) > 0
            => /\ loaded.conv = st.conv
               /\ (Len(loaded.sysm) > 0) <=> (Len(st.sysm) > 0)

\* C14: after load_history on a session with a persisted file, whatever the
\* store held before: a first record with role system is the session's
\* pinned system message, and otherwise the session has no pinned system
\* message (one pinned before the load is pinned no longer).
C14_LoadDecidesPinning ==
    [][\A s \in Sessions :
          (ApiLoadHistory(s) /\ has_file[s])
          => IF Len(disk[s]) > 0 /\ disk[s][1].role = "system"
             THEN system_messages'[s] = <<disk[s][1]>>
             ELSE system_messages'[s] = << >>]_vars

\* C15: add_messages_batch with k >= 1 messages does not write the
\* session's file while the k messages are being applied and writes it
\* exactly once afterwards, for every k.
C15_BatchWritesOnce ==
    [][\A s \in Sessions : \A k \in 1..MaxBatch :
          ApiAddMessagesBatch(s, k)
          => /\ \A j \in 1..k :
                    add_all(SessionState(s),
                            SubSeq(BatchMessages(k), 1, j)).writes = 0
             /\ file_writes'[s] = 1]_vars

C15_Witness ==
    /\ ops = 1
    /\ uuid_counter = MaxBatch
    /\ \E s \in Sessions :
           /\ file_writes[s] = 1
           /\ has_file[s]
           /\ Len(disk[s]) = Min(MaxBatch, max_history)

\* Counts handed to get_recent_messages.
Counts == 0..(max_history + 2)

\* C16: for a history with n non-system messages and every count >= 0,
\* get_recent_messages(session, count) is the pinned system message (if any)
\* once, followed by the last min(count, n) non-system messages in order.
C16_RecentMessagesCount ==
    \A s \in Sessions : \A count \in Counts :
        LET st == SessionState(s)
            non_system == IF Len(st.sysm) > 0 THEN Rest(st.conv) ELSE st.conv
            n == Len(non_system)
            k == Min(count, n)
        IN  get_recent_messages_count(st, count)
              = st.sysm \o SubSeq(non_system, n - k + 1, n)

\* Two argument dicts with the same items, whatever their order.
SamePayload(a, b) ==
    {a[i] : i \in 1..Len(a)} = {b[i] : i \in 1..Len(b)}

\* C17: record_function_attempt returns the number of calls made so far in
\* the session with the same fingerprint: a call returns one more than the
\* previous call with the same name and the same argument items in any key
\* order did (1 on a fresh session), it leaves what a call with another name
\* or another payload returns unchanged, and it leaves the counters of the
\* other sessions alone, pinned system message or not.
C17_AttemptCount ==
    [][\A s \in Sessions : \A n \in AttemptNames : \A a \in ArgDicts :
          ApiRecordAttempt(s, n, a)
          => LET st == SessionState(s)
                 st1 == record_function_attempt(st, n, a)
             IN  /\ function_call_attempts'[s] = st1.att
                 /\ (\A k \in AttemptKeys : st.att[k] = 0) => st1.ret = 1
                 /\ \A m \in AttemptNames : \A b \in ArgDicts :
                        LET before == record_function_attempt(st, m, b).ret
                            after == record_function_attempt(st1, m, b).ret
                        IN  IF m = n /\ SamePayload(a, b)
                            THEN st1.ret = before /\ after = before + 1
                            ELSE after = before
                 /\ \A o \in Sessions \ {s} :
                        function_call_attempts'[o]
                          = function_call_attempts[o]]_vars

C17_Witness ==
    \E s \in Sessions : \E o \in Sessions \ {s} : \E a \in ArgDicts :
        /\ Len(system_messages[s]) > 0
        /\ function_call_attempts[s][<<"place_pizza_order",
                                       json_dumps_sort_keys(a)>>] = 3
        /\ function_call_attempts[o][<<"place_pizza_order",
                                       json_dumps_sort_keys(a)>>] = 1

\* Sum of the attempt counters of one session.
RECURSIVE SumCounters(_, _)
SumCounters(att, keys) ==
    IF keys = {} THEN 0
    ELSE LET k == CHOOSE x \in keys : TRUE
         IN  att[k] + SumCounters(att, keys \ {k})

AttemptTotal(att) == SumCounters(att, AttemptKeys)

\* C18: every tool-call dispatch of a turn, whether it ends in success,
\* malformed arguments, unknown tool, argument mismatch or runtime failure,
\* increments one attempt counter of the session exactly once.
C18_EveryDispatchCounted ==
    [][\A t \in Tasks : \A o \in CallOutcomes :
          Dispatch(t, o)
          => LET s == turn[t].session
                 kind == Last(turn'[t].resolved).kind
             IN  kind \in {"success", "malformed", "missing", "mismatch",
                           "runtime"}
                 => AttemptTotal(function_call_attempts'[s])
                      = AttemptTotal(function_call_attempts[s]) + 1]_vars

\* C19: parent_id advances after every append: each assistant or tool
\* message a turn appends carries a message_id and a parent_id equal to the
\* message_id of the message the turn appended immediately before it, and
\* the user message carries a message_id, so that the turn's messages form
\* one chain back to the user message.
C19_ParentChain ==
    \A t \in Tasks :
        LET ap == turn[t].appended
        IN  \A i \in 1..Len(ap) :
                /\ ap[i].role = "user" => "message_id" \in ap[i].keys
                /\ (i > 1 /\ ap[i].role \in {"assistant", "tool"})
                   => /\ "message_id" \in ap[i].keys
                      /\ "parent_id" \in ap[i].keys
                      /\ "message_id" \in ap[i - 1].keys
                      /\ ap[i].parent_id = ap[i - 1].message_id

\* The system prompt run_agent inserts before it ingests the user message.
IsSystemPrompt(m) == m.role = "system" /\ m.content = SYSTEM_MESSAGE

\* C20: every event a turn emits carries message_id, parent_id,
\* conversation_id, user_input_id, sequence, timestamp and session_id, and
\* every message it appends from the user message onward carries the
\* correlation fields of a message, on every path.
C20_CorrelationFields ==
    \A t \in Tasks :
        /\ \A i \in 1..Len(events[t]) : EventKeys \subseteq events[t][i].keys
        /\ \A i \in 1..Len(turn[t].appended) :
               ~IsSystemPrompt(turn[t].appended[i])
               => MsgKeys \subseteq turn[t].appended[i].keys

\* C21: in the final step a reply message whose content is null produces an
\* event of status warning, not error, and the message is not appended.
C21_NullContentIsWarning ==
    \A t \in Tasks :
        LET tr == turn[t]
        IN  (Ended(tr) /\ tr.final = "null_content")
            => /\ Last(events[t]).status = "warning"
               /\ conversations[tr.session] = tr.before

\* C22: in the final step a reply whose content is not null, the empty string
\* included, is appended and reported by a success event at stage
\* final_response; a final message is appended if and only if its content is
\* not null, and a final call without a message appends nothing.
C22_FinalContentAppended ==
    \A t \in Tasks :
        LET tr == turn[t]
            h == conversations[tr.session]
            e == Last(events[t])
        IN  (tr.pc = "last_event_sent" /\ tr.final # "None")
            => IF tr.final = "content"
               THEN /\ e.status = "success"
                    /\ e.stage = "final_response"
                    /\ Last(tr.appended).role = "assistant"
                    /\ Last(tr.appended).content = e.payload
                    /\ Last(tr.appended).message_id = e.message_id
                    /\ Last(h) = Last(tr.appended)
                    /\ h # tr.before
               ELSE /\ e.status # "success"
                    /\ e.stage = "final_response"
                    /\ tr.final \in {"null_content", "no_response",
                                     "empty_message"}
                       => h = tr.before

C22_Witness ==
    \E t \in Tasks :
        /\ turn[t].pc = "last_event_sent"
        /\ turn[t].final = "content"
        /\ Last(events[t]).payload = ""
        /\ Last(conversations[turn[t].session]).content = ""
        /\ Last(conversations[turn[t].session]).role = "assistant"

\* Two consecutive calls of the same setup operation with the same
\* arguments, no forced refresh, no failure and unchanged sources.
SameCallAgain ==
    /\ index_ops' = index_ops + 1
    /\ index_result.op \in {"documents", "memory"}
    /\ index_result'.op = index_result.op
    /\ index_result'.target = index_result.target
    /\ index_result'.paths = index_result.paths
    /\ index_result'.model = index_result.model
    /\ ~index_result.force /\ ~index_result'.force
    /\ index_result.fail = "none" /\ index_result'.fail = "none"
    /\ index_result'.sources = index_result.sources

\* C23: when a setup call that returned a retriever is repeated with the
\* same embedding model, force_refresh false and unchanged sources, the
\* second call returns a retriever without parsing the sources and without
\* replacing the collection.
C23_SecondCallReuses ==
    [][(SameCallAgain /\ index_result.ret /= << >>)
          => /\ index_result'.ret /= << >>
             /\ ~index_result'.parsed
             /\ ~index_result'.rebuilt]_vars

\* A setup operation takes this step without a failure.
SetupStep ==
    /\ index_ops' = index_ops + 1
    /\ index_result'.op \in {"documents", "memory"}
    /\ index_result'.fail = "none"

\* The collection and the metadata record of the store a result is about.
CollectionOf(result) ==
    IF result.op = "documents" THEN COLLECTION_NAME ELSE MEMORY_COLLECTION

MetadataOf(result) ==
    IF result.op = "documents" THEN "documents" ELSE "memory"

\* What the contract rebuilds on, for the call whose arguments result holds:
\* force, a missing collection, or a persisted fingerprint or embedding
\* model that differs from the current one.
Stale(result) ==
    LET stored == store_metadata[MetadataOf(result)]
        existing == SelectSeq(result.paths, LAMBDA p : Stat(p).exists)
    IN  \/ result.force
        \/ ~collections[CollectionOf(result)].exists
        \/ stored = << >>
        \/ stored[1].files_hash /= get_files_hash(existing)
        \/ stored[1].embedding_model /= result.model

\* C24: a setup call on existing sources rebuilds the collection exactly
\* when force_refresh is set, the collection is missing, or the persisted
\* files_hash or embedding_model differs from the current one; otherwise
\* it returns the existing collection untouched.
C24_RebuildIffStale ==
    [][(/\ SetupStep
        /\ \E i \in 1..Len(index_result'.paths) :
              index_result'.paths[i] /= "None"
                 /\ Stat(index_result'.paths[i]).exists)
          => /\ index_result'.rebuilt <=> Stale(index_result')
             /\ ~Stale(index_result')
                   => /\ collections' = collections
                      /\ index_result'.ret /= << >>]_vars

\* C25: after a rebuild that failed while adding documents to the emptied
\* collection, the next call with the same arguments, force_refresh false
\* and unchanged sources rebuilds the collection instead of returning it.
C25_FailedRebuildRedone ==
    [][(/\ index_ops' = index_ops + 1
        /\ index_result.op = "documents" /\ index_result.fail = "write"
        /\ index_result'.op = "documents" /\ index_result'.fail = "none"
        /\ ~index_result'.force
        /\ index_result'.paths = index_result.paths
        /\ index_result'.model = index_result.model
        /\ index_result'.sources = index_result.sources)
          => index_result'.rebuilt]_vars

\* C26: every setup call returns a retriever, never None: with no source
\* files, with sources that hold no documents, and when parsing the sources
\* or writing the collection fails.
C26_AlwaysARetriever ==
    index_result.op \in {"documents", "memory"} => index_result.ret /= << >>

\* The passages of a session in the memory collection.
MemoryPartition(s) ==
    SelectSeq(collections[MEMORY_COLLECTION].docs,
              LAMBDA d : d.session_id = s)

\* C27: setting up the memory store of one session (build, refresh or
\* create empty) leaves the passages of every other session in the memory
\* store, where the retriever obtained for that session reads them.
C27_SetupLeavesOtherSessions ==
    [][\A a, b \in Sessions :
          (/\ a /= b
           /\ index_ops' = index_ops + 1
           /\ index_result'.op = "memory"
           /\ index_result'.target = a)
             => MemoryPartition(b)' = MemoryPartition(b)]_vars

\* C28: a memory query made in a turn of a session returns only passages
\* of that session's history, whatever session_id the backend supplies.
C28_QueryOwnSessionOnly ==
    index_result.op = "query"
       => \A i \in 1..Len(index_result.passages) :
             index_result.passages[i].session_id = index_result.target

\* A teardown of session s takes this step: WebSocketManager.disconnect or
\* vector_store.remove_session_retriever.
Teardown(s) ==
    /\ index_ops' = index_ops + 1
    /\ index_result'.op \in {"disconnect", "remove"}
    /\ index_result'.target = s

\* C29: the teardown of a session leaves none of its passages in the memory
\* store and every other session's passages in place, and a second
\* teardown of the same session changes nothing.
C29_TeardownRemovesOwnPartition ==
    [][\A s \in Sessions :
          Teardown(s)
             => /\ MemoryPartition(s)' = << >>
                /\ \A b \in Sessions \ {s} :
                      MemoryPartition(b)' = MemoryPartition(b)
                /\ (index_result.op = index_result'.op
                       /\ index_result.target = s)
                      => UNCHANGED <<collections, store_metadata,
                                     session_retrievers, memory_manager>>]_vars

\* Two lists of the same paths in some order.
SamePaths(fp, fq) ==
    /\ Len(fp) = Len(fq)
    /\ {fp[i] : i \in 1..Len(fp)} = {fq[i] : i \in 1..Len(fq)}

\* Whether a call without force_refresh finds the document store stale.
ReportsStale(file_paths, embedding_model) ==
    needs_refresh(store_metadata["documents"],
        get_files_hash(SelectSeq(file_paths, LAMBDA p : Stat(p).exists)),
        embedding_model, FALSE)

C31_QuerySeesCompleteIndex ==
    index_result.op = "query_documents"
       => index_result.passages =
              parse_files_to_documents(
                  SelectSeq(index_result.paths, LAMBDA p : Stat(p).exists))

\* C32: register rejects a tool whose name is already registered: once a
\* tool is registered under a name, get_tool of that name keeps returning it.
C32_RegisteredToolKept ==
    [][\A name \in DOMAIN tools :
          get_tool(name) # NoTool => get_tool(name)' = get_tool(name)]_vars

\* C33: a callable is never invoked with arguments the tool's parameter
\* schema rejects (a required field missing, a value of another type).
C33_InvokedArgsFitSchema ==
    call.outcome = "invoked" => validation_errors(call.name, call.args) = {}

\* C37: a connection that replaced another stays registered under its
\* session until its own handler ends.
C37_OpenConnectionRegistered ==
    \A w \in WebSockets :
        handler[w].pc = "connected" /\ handler[w].open
            => active_connections[handler[w].session] = w

\* C39: every advertised tool schema has a callable registered under the
\* same name.
C39_AdvertisedToolsCallable ==
    \A i \in DOMAIN tool_definitions :
        available_functions[tool_definitions[i]] # NoFunction

\* What the store holds for one session, in memory and on disk.
SessionView(s) ==
    <<conversations[s], system_messages[s], sequence_counters[s],
      function_call_attempts[s], disk[s], has_file[s]>>

\* C34: an operation of the store on one session leaves the history, the
\* pinned system message, the sequence counter, the attempt counts and the
\* persisted record of every other session unchanged.
C34_SessionsIndependent ==
    [][\A a \in Sessions : \A b \in Sessions \ {a} :
          StoreOp(a) => SessionView(b)' = SessionView(b)]_vars

C34_Witness ==
    /\ ops = MaxSessionOps
    /\ \E a \in Sessions : \E b \in Sessions \ {a} :
           /\ Len(conversations[a]) > 0
           /\ Len(conversations[b]) > 0
           /\ Len(system_messages[b]) > 0
           /\ has_file[b]

\* C35: set_system_message on a session without a pinned system message and
\* with at most max_history messages leaves the new system message followed
\* by all the previous messages; on a session with a pinned system message
\* it replaces only that message.
C35_SystemMessageKeepsHistory ==
    [][\A s \in Sessions :
          ApiSetSystemMessage(s)
          => IF system_messages[s] = << >>
             THEN Len(conversations[s]) <= max_history
                  => conversations'[s]
                       = <<ApiSystemMessage>> \o conversations[s]
             ELSE conversations'[s]
                    = <<ApiSystemMessage>> \o Rest(conversations[s])]_vars

\* Number of occurrences of a message in a list of messages.
Occurrences(msgs, m) == Cardinality({i \in DOMAIN msgs : msgs[i] = m})

\* C36: restoring a session on (re)connect does not duplicate history: after
\* the endpoint has batch-loaded the persisted messages of a session, the
\* store's history holds none of them more often than the file did, also
\* when the store already held the session's messages.
C36_RestoreDoesNotDuplicate ==
    [][\A w \in WebSockets : \A s \in Sessions :
          ConnectSocket(w, s)
          => \A i \in DOMAIN disk[s] :
                 Occurrences(conversations'[s], disk[s][i])
                     <= Occurrences(disk[s], disk[s][i])]_vars

\* C38: the history passed to the final generation call of a turn still
\* holds the turn's own user message and the assistant message that carried
\* the tool calls.
C38_FinalCallSeesTurn ==
    \A t \in DOMAIN turn :
        turn[t].pc = "final_call"
        => \A i \in DOMAIN turn[t].appended :
               LET m == turn[t].appended[i]
               IN  (m.role = "user"
                    \/ (m.role = "assistant" /\ m.tool_calls # << >>))
                   => \E j \in DOMAIN turn[t].before : turn[t].before[j] = m

\* Stages of the events that end a turn.
TerminalStages == {"initial_call", "initial_response", "final_response"}

\* C40: every turn terminates with a terminal event: when the backend calls
\* and the tool callables come back and the consumer keeps draining, a
\* started turn ends, having yielded a bounded number of events the last of
\* which has stage initial_call, initial_response or final_response.
C40_TurnTerminates ==
    \A t \in Tasks :
        (turn[t].pc = "initial_call")
            ~> (/\ turn[t].pc = "done"
                /\ Len(events[t]) \in 1..(2 * MaxToolCalls + 1)
                /\ Last(events[t]).stage \in TerminalStages)

C40_Witness ==
    \E t \in Tasks :
        /\ turn[t].pc = "done"
        /\ Len(turn[t].tool_calls) = MaxToolCalls
        /\ Len(events[t]) = 2 * MaxToolCalls + 1
        /\ Last(events[t]).stage = "final_response"

====
